---------------------------- MODULE Spec2Model ----------------------------
(***************************************************************************)
(* A model of radish: the in-memory store of RadishIO (radish_io.py), its  *)
(* XML persistence (read_config_xml / write_config_xml) and the string     *)
(* helpers of radish_utilities.py.                                         *)
(*                                                                         *)
(* Python strings are sequences of one-character strings.  A Python value  *)
(* is a record: Str(s), PyNone or Bool(b).  A call either returns a value  *)
(* (Ok) or raises (Raised).  The host is 3ds Max on Windows (the paths of  *)
(* radish_io.py are built with a backslash), so os.rename fails when the   *)
(* destination exists.                                                     *)
(***************************************************************************)
EXTENDS Integers, Sequences, FiniteSets, TLC

VARIABLES
    cams,      \* RadishIO.cams: camera name -> RadishCam
    cfg,       \* the file at cfg_path (radishConfig.xml)
    tmp,       \* the file at cfg_tmp (radishConfig.tmp)
    bak,       \* the file at backup_filepath for the current minute
    pc,        \* where the running call of read/write stands ("idle": none)
    doc,       \* the ElementTree held by the running call
    last,      \* how the last call ended: [op, out, ret]
    pre,       \* the files as they were when the running/last call began
    faulted,   \* a device fault was injected into the running/last call
    rt,        \* a write that returned, then a read into an empty store
    tagIn,     \* the input of xml_tag_cleaner under study
    tagOut,    \* the results of its successive applications to tagIn
    scene,     \* the 3ds Max scene that self._rt gives access to
    nops       \* how many times the scene was recorded, restored or edited

vars == <<cams, cfg, tmp, bak, pc, doc, last, pre, faulted, rt, tagIn, tagOut,
          scene, nops>>

---------------------------------------------------------------------------
(* Bounds of the model. *)

\* longest input string given to xml_tag_cleaner
MaxTagLen == 4

\* how many times a behaviour records, restores or edits the scene
MaxSceneOps == 3

\* the longest string handed to xml_get_bool
MaxBoolLen == 4

---------------------------------------------------------------------------
(* Python values and call results. *)

Str(s) == [str |-> s]
PyNone == [none |-> TRUE]
Bool(b) == [bool |-> b]

IsStr(v) == DOMAIN v = {"str"}
IsBool(v) == DOMAIN v = {"bool"}

Ok(v) == [ok |-> TRUE, val |-> v]
Raised(e) == [ok |-> FALSE, exc |-> e]

---------------------------------------------------------------------------
(* Characters: str.upper, str.isalpha, str.isalnum, str.strip. *)

LowerLetters == <<"a","b","c","d","e","f","g","h","i","j","k","l","m",
                  "n","o","p","q","r","s","t","u","v","w","x","y","z">>
UpperLetters == <<"A","B","C","D","E","F","G","H","I","J","K","L","M",
                  "N","O","P","Q","R","S","T","U","V","W","X","Y","Z">>
Digits == {"0","1","2","3","4","5","6","7","8","9"}

\* Names that come from the scene are unicode strings.  The characters that
\* are not ASCII are written by their code points: U+00E9 and U+00C9 are the
\* letter e with an acute accent, small and capital; U+3000 is the
\* ideographic space, which unicode.strip() strips.
NonAsciiChars == {"U+00E9", "U+00C9", "U+3000"}
Whitespace == {" ", "\t", "\n", "\r", "U+3000"}

Range(s) == {s[i] : i \in DOMAIN s}

IsAlphaChar(c) ==
    c \in Range(LowerLetters) \cup Range(UpperLetters) \cup {"U+00E9", "U+00C9"}
IsAlnumChar(c) == IsAlphaChar(c) \/ c \in Digits

UpperChar(c) ==
    IF c \in Range(LowerLetters)
    THEN UpperLetters[CHOOSE i \in DOMAIN LowerLetters : LowerLetters[i] = c]
    ELSE IF c = "U+00E9" THEN "U+00C9"
    ELSE c

\* s.upper()
Upper(s) == [i \in DOMAIN s |-> UpperChar(s[i])]

\* s.isalnum(): false for the empty string
IsAlnum(s) == Len(s) > 0 /\ \A i \in DOMAIN s : IsAlnumChar(s[i])

\* s.startswith(p)
StartsWith(s, p) == Len(s) >= Len(p) /\ SubSeq(s, 1, Len(p)) = p

\* s.strip()
Strip(s) ==
    LET keep == {i \in DOMAIN s : s[i] \notin Whitespace}
    IN  IF keep = {} THEN <<>>
        ELSE LET lo == CHOOSE i \in keep : \A j \in keep : i <= j
                 hi == CHOOSE i \in keep : \A j \in keep : j <= i
             IN  SubSeq(s, lo, hi)

\* str(v) of a Python value
PyStrOf(v) ==
    IF IsStr(v) THEN v.str
    ELSE IF IsBool(v) THEN (IF v.bool THEN <<"T","r","u","e">>
                                      ELSE <<"F","a","l","s","e">>)
    ELSE <<"N","o","n","e">>

---------------------------------------------------------------------------
(* radish_utilities.py *)

\* xml_tag_cleaner with the case-insensitive XML test made case-sensitive
xml_tag_cleaner_CaseSensitive(el) ==
    IF ~IsStr(el) THEN Raised("AttributeError")
    ELSE
    LET blank == IF el.str = <<>> THEN <<"B","L","A","N","K">> ELSE el.str
        stripped == Strip(blank)
        replaced == IF IsAlnum(stripped) THEN stripped
                    ELSE [i \in DOMAIN stripped |->
                            IF ~IsAlnumChar(stripped[i]) /\ stripped[i] # "_"
                            THEN "_" ELSE stripped[i]]
    IN  IF replaced = <<>> THEN Raised("IndexError")
        ELSE IF ~IsAlphaChar(replaced[1])
                \/ StartsWith(replaced, <<"X","M","L">>)
             THEN Ok(Str(<<"_">> \o replaced))
             ELSE Ok(Str(replaced))

\* xml_tag_cleaner(el): None has no strip(); output[0] of an empty string
\* raises IndexError
xml_tag_cleaner(el) ==
    IF ~IsStr(el) THEN Raised("AttributeError")
    ELSE
    LET blank == IF el.str = <<>> THEN <<"B","L","A","N","K">> ELSE el.str
        stripped == Strip(blank)
        replaced == IF IsAlnum(stripped) THEN stripped
                    ELSE [i \in DOMAIN stripped |->
                            IF ~IsAlnumChar(stripped[i]) /\ stripped[i] # "_"
                            THEN "_" ELSE stripped[i]]
    IN  IF replaced = <<>> THEN Raised("IndexError")
        ELSE IF ~IsAlphaChar(replaced[1])
                \/ StartsWith(Upper(replaced), <<"X","M","L">>)
             THEN Ok(Str(<<"_">> \o replaced))
             ELSE Ok(Str(replaced))

\* xml_get_bool(bool_input)
xml_get_bool(bool_input) ==
    LET s == Upper(PyStrOf(bool_input))
    IN  s = <<"T","R","U","E">> \/ s = <<"1">>

\* is_ascii(text): text.encode('ascii') of a unicode string succeeds
is_ascii(text) == \A i \in DOMAIN text.str : text.str[i] \notin NonAsciiChars

\* str(v), line 168: UnicodeEncodeError for a unicode string that holds a
\* character outside ASCII
StrRaises(v) == IsStr(v) /\ ~is_ascii(v)

\* xml_get_bool as a call: the boolean, or the exception of line 168
xml_get_bool_call(bool_input) ==
    IF StrRaises(bool_input) THEN Raised("UnicodeEncodeError")
    ELSE Ok(Bool(xml_get_bool(bool_input)))

\* line 90 of get_instances: a quotation mark or an apostrophe in the name
HasQuote(name) == \E i \in DOMAIN name.str : name.str[i] \in {"\"", "'"}

---------------------------------------------------------------------------
(* Python dicts and lists. *)

EmptyDict == <<>>

DictSet(d, k, v) == [x \in DOMAIN d \cup {k} |-> IF x = k THEN v ELSE d[x]]
DictDel(d, k) == [x \in DOMAIN d \ {k} |-> d[x]]

\* the order in which a dict is iterated: fixed for a given key set
RECURSIVE KeyOrder(_)
KeyOrder(S) ==
    IF S = {} THEN <<>>
    ELSE LET k == CHOOSE x \in S : TRUE IN <<k>> \o KeyOrder(S \ {k})

\* d.itervalues()
IterValues(d) == LET ks == KeyOrder(DOMAIN d) IN [i \in DOMAIN ks |-> d[ks[i]]]

\* str(n) of a small non-negative integer
RECURSIVE IntStr(_)
IntStr(n) ==
    LET ds == <<"0","1","2","3","4","5","6","7","8","9">>
    IN  IF n < 10 THEN <<ds[n + 1]>> ELSE IntStr(n \div 10) \o <<ds[(n % 10) + 1]>>

---------------------------------------------------------------------------
(* radish_io.py: the record types. *)

RadishCam(name) == [type |-> "CAM", name |-> name, passes |-> EmptyDict]

RadishPass(name) ==
    [type |-> "PASS", name |-> name, layers |-> EmptyDict, lights |-> EmptyDict,
     effects |-> EmptyDict, elements |-> EmptyDict,
     resolution |-> [x |-> PyNone, y |-> PyNone]]

RadishLayer(name, on, misc) ==
    [type |-> "LAYER", name |-> name, on |-> on, misc |-> misc]

RadishLight(name, enabled, on, instances, misc) ==
    [type |-> "LIGHT", name |-> name, enabled |-> enabled, on |-> on,
     instances |-> instances, misc |-> misc]

RadishEffect(name, active, misc) ==
    [type |-> "EFFECT", name |-> name, active |-> active, misc |-> misc]

RadishElement(name, enabled, misc) ==
    [type |-> "ELEMENT", name |-> name, enabled |-> enabled, misc |-> misc]

---------------------------------------------------------------------------
(* radish_io.py: the store accessors, as functions of the camera mapping. *)

\* set_cam: the mapping after the call
set_cam(store, cam_name) ==
    IF cam_name \notin DOMAIN store
    THEN DictSet(store, cam_name, RadishCam(cam_name))
    ELSE store

\* set_pass without the test of line 626: a new pass at every call
set_pass_Fresh(store, cam_name, pass_name) ==
    [set_cam(store, cam_name) EXCEPT ![cam_name].passes =
        DictSet(@, pass_name, RadishPass(pass_name))]

\* set_pass: the mapping after the call (the call returns store[cam].passes[pass])
set_pass(store, cam_name, pass_name) ==
    LET s1 == set_cam(store, cam_name)
    IN  IF pass_name \notin DOMAIN s1[cam_name].passes
        THEN [s1 EXCEPT ![cam_name].passes =
                 DictSet(@, pass_name, RadishPass(pass_name))]
        ELSE s1

\* get_pass: the pass, or ValueError
get_pass(store, cam_name, pass_name) ==
    IF cam_name \in DOMAIN store /\ pass_name \in DOMAIN store[cam_name].passes
    THEN Ok(store[cam_name].passes[pass_name])
    ELSE Raised("ValueError")

\* reset_pass without the del of line 666
reset_pass_Keeps(store, cam_name, pass_name) ==
    IF get_pass(store, cam_name, pass_name).ok
    THEN Ok(store)
    ELSE Raised("ValueError")

\* reset_pass: the mapping after the call, or ValueError
reset_pass(store, cam_name, pass_name) ==
    IF get_pass(store, cam_name, pass_name).ok
    THEN Ok([store EXCEPT ![cam_name].passes = DictDel(@, pass_name)])
    ELSE Raised("ValueError")

\* reset_cam without the raise of line 678
reset_cam_Quiet(store, cam_name) ==
    IF cam_name \in DOMAIN store
    THEN Ok(DictDel(store, cam_name))
    ELSE Ok(store)

\* reset_cam that empties the cameras it keeps
reset_cam_Wide(store, cam_name) ==
    IF cam_name \in DOMAIN store
    THEN Ok([k \in DOMAIN DictDel(store, cam_name) |->
                [store[k] EXCEPT !.passes = EmptyDict]])
    ELSE Raised("ValueError")

\* reset_cam: the mapping after the call, or ValueError
reset_cam(store, cam_name) ==
    IF cam_name \in DOMAIN store
    THEN Ok(DictDel(store, cam_name))
    ELSE Raised("ValueError")

\* reset_all
reset_all(store) == EmptyDict

\* get_all_passes, lines 643-657: the pass names, each once, in the order
\* the two loops meet them
\* the inner loop without the test of line 651
RECURSIVE AppendNew_All(_, _)
AppendNew_All(passes, ps) ==
    IF ps = <<>> THEN passes
    ELSE AppendNew_All(Append(passes, Head(ps).name), Tail(ps))

RECURSIVE AppendNew(_, _)
AppendNew(passes, ps) ==
    IF ps = <<>> THEN passes
    ELSE AppendNew(IF Head(ps).name \in Range(passes) THEN passes
                   ELSE Append(passes, Head(ps).name),
                   Tail(ps))

RECURSIVE PassesOfCams(_, _)
PassesOfCams(passes, cs) ==
    IF cs = <<>> THEN passes
    ELSE PassesOfCams(AppendNew(passes, IterValues(Head(cs).passes)), Tail(cs))

get_all_passes(store) == PassesOfCams(<<>>, IterValues(store))

---------------------------------------------------------------------------
(* The scene, as self._rt shows it: the layers of the layer manager, the   *)
(* lights, the atmospherics and the render elements, each in the order the *)
(* host enumerates them.  A flag is a Python bool; a light that has no     *)
(* 'on' or no 'enabled' property holds None there.  Lights of one instance *)
(* group share the group number.                                           *)

SceneLayer(name, on) == [name |-> name, on |-> on]
SceneLight(name, on, enabled, group) ==
    [name |-> name, on |-> on, enabled |-> enabled, group |-> group]
SceneEffect(name, active) == [name |-> name, active |-> active]
SceneElement(name, enabled) == [name |-> name, enabled |-> enabled]

\* rt.getNodeByName(name), layerManager.getLayerFromName(name): the index of
\* the first object of that name, 0 when there is none
FirstNamed(objs, name) ==
    IF \E i \in DOMAIN objs : objs[i].name = name
    THEN CHOOSE i \in DOMAIN objs :
            objs[i].name = name /\ \A j \in 1..(i - 1) : objs[j].name # name
    ELSE 0

\* radish_utilities.get_instances(x), lines 83-103: False for a name with a
\* quotation mark or an apostrophe; else the nodes found by name for the
\* names of the instances of the node found by x's name
get_instances(lights, x) ==
    IF HasQuote(x.name) THEN [iterable |-> FALSE, objs |-> <<>>]
    ELSE LET obj == lights[FirstNamed(lights, x.name)]
             instanceNames ==
                 SelectSeq([i \in DOMAIN lights |-> lights[i]],
                           LAMBDA l : l.group = obj.group)
         IN  [iterable |-> TRUE,
              objs |-> [i \in DOMAIN instanceNames |->
                          lights[FirstNamed(lights, instanceNames[i].name)]]]

---------------------------------------------------------------------------
(* save_state, lines 332-536.  Each category loop yields [map, skipped,    *)
(* exc]: the new mapping, the count of skipped entities and the exception  *)
(* that left the loop ("" when none did).  The warning of a skipped name   *)
(* formats xml_tag_cleaner(name), which can raise.                         *)

NoneRecorded == [map |-> EmptyDict, skipped |-> 0, exc |-> ""]

\* the value of a set of one value: a loop's state is worked out once per
\* turn of the loop and then named, as {body(a) : a \in {state}}
Only(S) == CHOOSE x \in S : TRUE

\* lines 356-379
RECURSIVE SaveLayers(_, _)
SaveLayers(acc, ls) ==
    IF ls = <<>> THEN acc
    ELSE Only({
        LET layer == Head(ls)
        IN  IF is_ascii(layer.name) = FALSE
            THEN IF ~xml_tag_cleaner(layer.name).ok
                 THEN [a EXCEPT !.exc = xml_tag_cleaner(layer.name).exc]
                 ELSE SaveLayers([a EXCEPT !.skipped = @ + 1], Tail(ls))
            ELSE SaveLayers(
                     [a EXCEPT !.map = DictSet(@, layer.name,
                                           RadishLayer(layer.name, layer.on, PyNone))],
                     Tail(ls))
        : a \in {acc}})

\* lines 416-426 with the test of line 422 left out
RECURSIVE SaveInstances_WithSelf(_, _, _)
SaveInstances_WithSelf(acc, light_name, objs) ==
    IF objs = <<>> THEN acc
    ELSE Only({
        LET i_name == Head(objs).name
        IN  IF ~is_ascii(i_name)
            THEN IF ~xml_tag_cleaner(i_name).ok
                 THEN [a EXCEPT !.exc = xml_tag_cleaner(i_name).exc]
                 ELSE SaveInstances_WithSelf([a EXCEPT !.skipped = @ + 1],
                                             light_name, Tail(objs))
            ELSE SaveInstances_WithSelf(
                     [a EXCEPT !.instances = Append(@, i_name),
                               !.ignored = Append(@, i_name)],
                     light_name, Tail(objs))
        : a \in {acc}})

\* lines 416-426: the loop over the instances of one light; acc is
\* [instances, ignored, skipped, exc]
RECURSIVE SaveInstances(_, _, _)
SaveInstances(acc, light_name, objs) ==
    IF objs = <<>> THEN acc
    ELSE Only({
        LET i_name == Head(objs).name
        IN  IF ~is_ascii(i_name)
            THEN IF ~xml_tag_cleaner(i_name).ok
                 THEN [a EXCEPT !.exc = xml_tag_cleaner(i_name).exc]
                 ELSE SaveInstances([a EXCEPT !.skipped = @ + 1],
                                    light_name, Tail(objs))
            ELSE IF i_name = light_name
            THEN SaveInstances(a, light_name, Tail(objs))
            ELSE SaveInstances([a EXCEPT !.instances = Append(@, i_name),
                                         !.ignored = Append(@, i_name)],
                               light_name, Tail(objs))
        : a \in {acc}})

\* lines 414-442: one light that is neither ignored nor skipped for its
\* name.  Iterating over the False of get_instances raises TypeError, which
\* 'except ValueError' does not catch.
SaveLight(a, all, light) ==
    Only({
        IF ~light_instances_objs.iterable
        THEN [a EXCEPT !.exc = "TypeError"]
        ELSE Only({
            IF r.exc # "" THEN [a EXCEPT !.exc = r.exc]
            ELSE [map |-> DictSet(a.map, light.name,
                              RadishLight(light.name, light.enabled, light.on,
                                          r.instances, PyNone)),
                  ignored |-> r.ignored,
                  skipped |-> r.skipped,
                  exc |-> ""]
            : r \in {SaveInstances([instances |-> <<>>, ignored |-> a.ignored,
                                    skipped |-> a.skipped, exc |-> ""],
                                   light.name, light_instances_objs.objs)}})
        : light_instances_objs \in {get_instances(all, light)}})

\* lines 390-449: acc is [map, ignored, skipped, exc]
RECURSIVE SaveLights(_, _, _)
SaveLights(acc, all, ls) ==
    IF ls = <<>> THEN acc
    ELSE Only({
        LET light == Head(ls)
        IN  IF light.name \in Range(a.ignored)
            THEN SaveLights(a, all, Tail(ls))
            ELSE IF ~is_ascii(light.name)
            THEN IF ~xml_tag_cleaner(light.name).ok
                 THEN [a EXCEPT !.exc = xml_tag_cleaner(light.name).exc]
                 ELSE SaveLights([a EXCEPT !.skipped = @ + 1], all, Tail(ls))
            ELSE Only({
                IF a1.exc # "" THEN a1 ELSE SaveLights(a1, all, Tail(ls))
                : a1 \in {SaveLight(a, all, light)}})
        : a \in {acc}})

\* lines 458-490
RECURSIVE SaveEffects(_, _)
SaveEffects(acc, es) ==
    IF es = <<>> THEN acc
    ELSE Only({
        LET effect == Head(es)
        IN  IF ~is_ascii(effect.name)
            THEN IF ~xml_tag_cleaner(effect.name).ok
                 THEN [a EXCEPT !.exc = xml_tag_cleaner(effect.name).exc]
                 ELSE SaveEffects([a EXCEPT !.skipped = @ + 1], Tail(es))
            ELSE SaveEffects(
                     [a EXCEPT !.map = DictSet(@, effect.name,
                                           RadishEffect(effect.name, effect.active, PyNone))],
                     Tail(es))
        : a \in {acc}})

\* lines 500-533
RECURSIVE SaveElements(_, _)
SaveElements(acc, es) ==
    IF es = <<>> THEN acc
    ELSE Only({
        LET element == Head(es)
        IN  IF ~is_ascii(element.name)
            THEN IF ~xml_tag_cleaner(element.name).ok
                 THEN [a EXCEPT !.exc = xml_tag_cleaner(element.name).exc]
                 ELSE SaveElements([a EXCEPT !.skipped = @ + 1], Tail(es))
            ELSE SaveElements(
                     [a EXCEPT !.map = DictSet(@, element.name,
                                           RadishElement(element.name, element.enabled, PyNone))],
                     Tail(es))
        : a \in {acc}})

Categories == {"layers", "lights", "effects", "elements"}

\* what one category loop of save_state yields on the scene scn
Recorded(scn, cat) ==
    CASE cat = "layers" -> SaveLayers(NoneRecorded, scn.layers)
      [] cat = "lights" ->
            Only({[map |-> r.map, skipped |-> r.skipped, exc |-> r.exc]
                  : r \in {SaveLights([map |-> EmptyDict, ignored |-> <<>>,
                                       skipped |-> 0, exc |-> ""],
                                      scn.lights, scn.lights)}})
      [] cat = "effects" -> SaveEffects(NoneRecorded, scn.effects)
      [] cat = "elements" -> SaveElements(NoneRecorded, scn.elements)

\* one 'if options[cat]:' block that adds to the mapping of the pass instead
\* of replacing it
SaveCategory_Merge(r, scn, cam_name, pass_name, options, cat) ==
    Only({
        IF x.exc # "" \/ ~options[cat] THEN x
        ELSE Only({
            IF c.exc # "" THEN [x EXCEPT !.exc = c.exc]
            ELSE [x EXCEPT !.store[cam_name].passes[pass_name][cat] =
                               [k \in DOMAIN @ \cup DOMAIN c.map |->
                                   IF k \in DOMAIN c.map THEN c.map[k] ELSE @[k]],
                           !.skipped[cat] = c.skipped]
            : c \in {Recorded(scn, cat)}})
        : x \in {r}})

\* one block that empties the mapping of a category that is not selected
SaveCategory_Clears(r, scn, cam_name, pass_name, options, cat) ==
    Only({
        IF x.exc # "" THEN x
        ELSE IF ~options[cat]
        THEN [x EXCEPT !.store[cam_name].passes[pass_name][cat] = EmptyDict]
        ELSE Only({
            IF c.exc # "" THEN [x EXCEPT !.exc = c.exc]
            ELSE [x EXCEPT !.store[cam_name].passes[pass_name][cat] = c.map,
                           !.skipped[cat] = c.skipped]
            : c \in {Recorded(scn, cat)}})
        : x \in {r}})

\* one 'if options[cat]:' block: past an exception nothing more is done
SaveCategory(r, scn, cam_name, pass_name, options, cat) ==
    Only({
        IF x.exc # "" \/ ~options[cat] THEN x
        ELSE Only({
            IF c.exc # "" THEN [x EXCEPT !.exc = c.exc]
            ELSE [x EXCEPT !.store[cam_name].passes[pass_name][cat] = c.map,
                           !.skipped[cat] = c.skipped]
            : c \in {Recorded(scn, cat)}})
        : x \in {r}})

\* save_state(cam_name, pass_name, options): [store, skipped, exc], the
\* mapping as the call leaves it, the four skip counts, the exception
save_state(store, scn, cam_name, pass_name, options) ==
    LET r0 == [store |-> set_pass(store, cam_name, pass_name),
               skipped |-> [c \in Categories |-> 0],
               exc |-> ""]
        r1 == SaveCategory(r0, scn, cam_name, pass_name, options, "layers")
        r2 == SaveCategory(r1, scn, cam_name, pass_name, options, "lights")
        r3 == SaveCategory(r2, scn, cam_name, pass_name, options, "effects")
    IN  SaveCategory(r3, scn, cam_name, pass_name, options, "elements")

---------------------------------------------------------------------------
(* load_state, lines 539-611: [scene, exc].  Only layers and lights are     *)
(* restored.  The host refuses an assignment of None to a flag and an      *)
(* assignment to a property the node has not got: the call then raises.    *)

\* the loop over the layers with tgt_layer.on assigned on None: the miss
\* raises AttributeError
RECURSIVE LoadLayers_RaiseAtMiss(_, _)
LoadLayers_RaiseAtMiss(acc, rec) ==
    IF rec = <<>> THEN acc
    ELSE Only({
        LET layer == Head(rec)
            i == FirstNamed(a.objs, layer.name)
        IN  IF i = 0 THEN [a EXCEPT !.exc = "AttributeError"]
            ELSE IF ~IsBool(layer.on) THEN [a EXCEPT !.exc = "RuntimeError"]
            ELSE LoadLayers_RaiseAtMiss([a EXCEPT !.objs[i].on = layer.on],
                                        Tail(rec))
        : a \in {acc}})

\* lines 562-573: acc is [objs, exc]
RECURSIVE LoadLayers(_, _)
LoadLayers(acc, rec) ==
    IF rec = <<>> THEN acc
    ELSE Only({
        LET layer == Head(rec)
            i == FirstNamed(a.objs, layer.name)
        IN  IF i = 0 THEN LoadLayers(a, Tail(rec))
            ELSE IF ~IsBool(layer.on) THEN [a EXCEPT !.exc = "RuntimeError"]
            ELSE LoadLayers([a EXCEPT !.objs[i].on = layer.on], Tail(rec))
        : a \in {acc}})

\* lines 604-605 and 606-607: one guarded assignment
SetFlag(acc, i, flag, v) ==
    Only({
        IF a.exc # "" \/ v = PyNone THEN a
        ELSE IF ~IsBool(v) \/ a.objs[i][flag] = PyNone
        THEN [a EXCEPT !.exc = "RuntimeError"]
        ELSE [a EXCEPT !.objs[i][flag] = v]
        : a \in {acc}})

\* lines 589-607
RECURSIVE LoadLights(_, _)
LoadLights(acc, rec) ==
    IF rec = <<>> THEN acc
    ELSE Only({
        LET light == Head(rec)
            i == FirstNamed(a.objs, light.name)
        IN  IF a.exc # "" THEN a
            ELSE IF i = 0 THEN LoadLights(a, Tail(rec))
            ELSE LoadLights(SetFlag(SetFlag(a, i, "on", light.on),
                                    i, "enabled", light.enabled),
                            Tail(rec))
        : a \in {acc}})

load_state(store, scn, cam_name, pass_name, options) ==
    Only({
        IF ~g.ok THEN [scene |-> scn, exc |-> ""]
        ELSE
        Only({
            Only({
                [scene |-> [scn EXCEPT !.layers = la.objs, !.lights = li.objs],
                 exc |-> IF la.exc # "" THEN la.exc ELSE li.exc]
                : li \in {IF la.exc = "" /\ options["lights"] /\ g.val.lights # EmptyDict
                          THEN LoadLights([objs |-> scn.lights, exc |-> ""],
                                          IterValues(g.val.lights))
                          ELSE [objs |-> scn.lights, exc |-> ""]}})
            : la \in {IF options["layers"] /\ g.val.layers # EmptyDict
                      THEN LoadLayers([objs |-> scn.layers, exc |-> ""],
                                      IterValues(g.val.layers))
                      ELSE [objs |-> scn.layers, exc |-> ""]}})
        : g \in {get_pass(store, cam_name, pass_name)}})

---------------------------------------------------------------------------
(* The ElementTree documents: a node is [tag, attrib, kids]; attrib maps    *)
(* attribute names to strings; kids is the sequence of child nodes.        *)

Element(tag, attrib, kids) == [tag |-> tag, attrib |-> attrib, kids |-> kids]

T_ROOT == <<"R","O","O","T">>
T_LAYERS == <<"L","A","Y","E","R","S">>
T_LIGHTS == <<"L","I","G","H","T","S">>
T_EFFECTS == <<"E","F","F","E","C","T","S">>
T_ELEMENTS == <<"E","L","E","M","E","N","T","S">>
S_CAM == <<"C","A","M">>
S_PASS == <<"P","A","S","S">>

\* el.findall("./*[@type='T']")
FindByType(el, t) ==
    SelectSeq(el.kids, LAMBDA k : "type" \in DOMAIN k.attrib /\ k.attrib["type"] = t)

\* el.findall('./TAG/*'): the children of every child tagged TAG, in order
RECURSIVE KidsOfTagged(_, _)
KidsOfTagged(kids, tag) ==
    IF kids = <<>> THEN <<>>
    ELSE (IF Head(kids).tag = tag THEN Head(kids).kids ELSE <<>>)
         \o KidsOfTagged(Tail(kids), tag)

\* the attributes a loop over attrib.items() files under misc
MiscOf(attrib, known) == [k \in DOMAIN attrib \ known |-> attrib[k]]

\* a named attribute through a conversion, None when the node has not got it
AttrStr(attrib, k) == IF k \in DOMAIN attrib THEN Str(attrib[k]) ELSE PyNone
AttrBool(attrib, k) ==
    IF k \in DOMAIN attrib THEN Bool(xml_get_bool(Str(attrib[k]))) ELSE PyNone

---------------------------------------------------------------------------
(* read_config_xml, lines 126-223: the reconstruction.  Each step yields   *)
(* [store, exc]: the mapping as mutated so far and the exception raised.   *)

\* lines 139-155
RECURSIVE ReadLayers(_, _)
ReadLayers(layers, nodes) ==
    IF nodes = <<>> THEN layers
    ELSE LET a == Head(nodes).attrib
             tgt_name == AttrStr(a, "realName")
         IN  ReadLayers(DictSet(layers, tgt_name,
                            RadishLayer(tgt_name, AttrBool(a, "on"),
                                        MiscOf(a, {"realName", "on"}))),
                        Tail(nodes))

\* lines 175-176: child.attrib['realName'] of every child, or KeyError
ReadInstances(kids) ==
    IF \E i \in DOMAIN kids : "realName" \notin DOMAIN kids[i].attrib
    THEN Raised("KeyError")
    ELSE Ok([i \in DOMAIN kids |-> Str(kids[i].attrib["realName"])])

\* lines 159-183
RECURSIVE ReadLights(_, _)
ReadLights(lights, nodes) ==
    IF nodes = <<>> THEN [dict |-> lights, exc |-> ""]
    ELSE LET a == Head(nodes).attrib
             tgt_name == AttrStr(a, "realName")
             inst == ReadInstances(Head(nodes).kids)
         IN  IF ~inst.ok THEN [dict |-> lights, exc |-> inst.exc]
             ELSE ReadLights(DictSet(lights, tgt_name,
                                RadishLight(tgt_name, AttrBool(a, "enabled"),
                                            AttrBool(a, "on"), inst.val,
                                            MiscOf(a, {"realName", "on", "enabled"}))),
                             Tail(nodes))

\* lines 187-203
RECURSIVE ReadEffects(_, _)
ReadEffects(effects, nodes) ==
    IF nodes = <<>> THEN effects
    ELSE LET a == Head(nodes).attrib
             tgt_name == AttrStr(a, "realName")
         IN  ReadEffects(DictSet(effects, tgt_name,
                            RadishEffect(tgt_name, AttrBool(a, "isActive"),
                                         MiscOf(a, {"realName", "isActive"}))),
                         Tail(nodes))

\* lines 207-223: 'enabled' is kept as the attribute's string (line 216)
RECURSIVE ReadElements(_, _)
ReadElements(elements, nodes) ==
    IF nodes = <<>> THEN elements
    ELSE LET a == Head(nodes).attrib
             tgt_name == AttrStr(a, "realName")
         IN  ReadElements(DictSet(elements, tgt_name,
                            RadishElement(tgt_name, AttrStr(a, "enabled"),
                                          MiscOf(a, {"realName", "enabled"}))),
                          Tail(nodes))

\* lines 132-223: the passes of one camera node
RECURSIVE ReadPasses(_, _, _)
ReadPasses(store, cam_name, nodes) ==
    IF nodes = <<>> THEN [store |-> store, exc |-> ""]
    ELSE LET tgt_pass == Head(nodes)
         IN  IF "realName" \notin DOMAIN tgt_pass.attrib
             THEN [store |-> store, exc |-> "KeyError"]
             ELSE
             LET pass_name == Str(tgt_pass.attrib["realName"])
                 s1 == set_pass(store, cam_name, pass_name)
                 p1 == s1[cam_name].passes[pass_name]
                 layers == ReadLayers(p1.layers, KidsOfTagged(tgt_pass.kids, T_LAYERS))
                 lights == ReadLights(p1.lights, KidsOfTagged(tgt_pass.kids, T_LIGHTS))
                 s2 == [s1 EXCEPT ![cam_name].passes[pass_name] =
                           [@ EXCEPT !.layers = layers, !.lights = lights.dict]]
                 s3 == [s2 EXCEPT ![cam_name].passes[pass_name] =
                           [@ EXCEPT
                              !.effects = ReadEffects(@, KidsOfTagged(tgt_pass.kids, T_EFFECTS)),
                              !.elements = ReadElements(@, KidsOfTagged(tgt_pass.kids, T_ELEMENTS))]]
             IN  IF lights.exc # "" THEN [store |-> s2, exc |-> lights.exc]
                 ELSE ReadPasses(s3, cam_name, Tail(nodes))

\* lines 127-223: the camera nodes of the root
RECURSIVE ReadCams(_, _)
ReadCams(store, nodes) ==
    IF nodes = <<>> THEN [store |-> store, exc |-> ""]
    ELSE LET tgt_cam == Head(nodes)
         IN  IF "realName" \notin DOMAIN tgt_cam.attrib
             THEN [store |-> store, exc |-> "KeyError"]
             ELSE
             LET r == ReadPasses(store, Str(tgt_cam.attrib["realName"]),
                                 FindByType(tgt_cam, S_PASS))
             IN  IF r.exc # "" THEN r ELSE ReadCams(r.store, Tail(nodes))

\* the reconstruction with the handler of lines 224-227 left out
ParseConfig_NoReset(store, cfg_root) == ReadCams(store, FindByType(cfg_root, S_CAM)).store

\* lines 126-227: the mapping after the reconstruction, which starts from
\* the mapping in memory and falls back to {} when anything raised
ParseConfig(store, cfg_root) ==
    LET r == ReadCams(store, FindByType(cfg_root, S_CAM))
    IN  IF r.exc # "" THEN EmptyDict ELSE r.store

---------------------------------------------------------------------------
(* write_config_xml, lines 243-298: the ElementTree built from the store.  *)
(* A tag that xml_tag_cleaner cannot produce is left empty here and makes  *)
(* SerializeRaises true: the call then raises before any file is touched.  *)

TagOf(name) ==
    LET r == xml_tag_cleaner(name) IN IF r.ok THEN r.val.str ELSE <<>>

\* name.upper(): a method of strings only
UpperOf(name) == IF IsStr(name) THEN Str(Upper(name.str)) ELSE PyNone

\* lines 262-264
LayerNode(src_layer) ==
    Element(TagOf(src_layer.name),
            [realName |-> PyStrOf(src_layer.name), on |-> PyStrOf(src_layer.on)],
            <<>>)

\* lines 281-282
InstanceNode(instance) ==
    Element(TagOf(instance), [realName |-> PyStrOf(instance)], <<>>)

\* lines 272-282
LightNode(src_light) ==
    LET a0 == [realName |-> PyStrOf(src_light.name),
               instanceCount |-> IntStr(Len(src_light.instances))]
        a1 == IF src_light.enabled # PyNone
              THEN DictSet(a0, "enabled", PyStrOf(src_light.enabled)) ELSE a0
        a2 == IF src_light.on # PyNone
              THEN DictSet(a1, "on", PyStrOf(src_light.on)) ELSE a1
    IN  Element(TagOf(src_light.name), a2,
                [i \in DOMAIN src_light.instances |->
                    InstanceNode(src_light.instances[i])])

\* lines 288-290
EffectNode(src_effect) ==
    Element(TagOf(src_effect.name),
            [realName |-> PyStrOf(src_effect.name),
             isActive |-> PyStrOf(src_effect.active)],
            <<>>)

\* lines 296-298
ElementNode(src_element) ==
    Element(TagOf(src_element.name),
            [realName |-> PyStrOf(src_element.name),
             enabled |-> PyStrOf(src_element.enabled)],
            <<>>)

\* one category container, omitted when the category is empty
Container(tag, nodes) == IF nodes = <<>> THEN <<>> ELSE <<Element(tag, <<>>, nodes)>>

\* lines 252-298
PassNode(src_pass) ==
    LET layers == IterValues(src_pass.layers)
        lights == IterValues(src_pass.lights)
        effects == IterValues(src_pass.effects)
        elements == IterValues(src_pass.elements)
    IN  Element(TagOf(UpperOf(src_pass.name)),
                [realName |-> PyStrOf(src_pass.name), type |-> S_PASS],
                Container(T_LAYERS, [i \in DOMAIN layers |-> LayerNode(layers[i])])
                \o Container(T_LIGHTS, [i \in DOMAIN lights |-> LightNode(lights[i])])
                \o Container(T_EFFECTS, [i \in DOMAIN effects |-> EffectNode(effects[i])])
                \o Container(T_ELEMENTS, [i \in DOMAIN elements |-> ElementNode(elements[i])]))

\* lines 247-255
CamNode(src_cam) ==
    LET passes == IterValues(src_cam.passes)
    IN  Element(TagOf(UpperOf(src_cam.name)),
                [realName |-> PyStrOf(src_cam.name), type |-> S_CAM],
                [i \in DOMAIN passes |-> PassNode(passes[i])])

\* lines 243-298: the tree
Serialize(store) ==
    LET cs == IterValues(store)
    IN  Element(T_ROOT, <<>>, [i \in DOMAIN cs |-> CamNode(cs[i])])

\* the names that become tags while the tree is built
TagNames(store) ==
    UNION {
        {UpperOf(store[c].name)}
        \cup UNION {
            LET p == store[c].passes[pn]
            IN  {UpperOf(p.name)}
                \cup {p.layers[k].name : k \in DOMAIN p.layers}
                \cup {p.lights[k].name : k \in DOMAIN p.lights}
                \cup UNION {Range(p.lights[k].instances) : k \in DOMAIN p.lights}
                \cup {p.effects[k].name : k \in DOMAIN p.effects}
                \cup {p.elements[k].name : k \in DOMAIN p.elements}
            : pn \in DOMAIN store[c].passes}
        : c \in DOMAIN store}

\* lines 243-298 raise: some xml_tag_cleaner call raises
SerializeRaises(store) == \E n \in TagNames(store) : ~xml_tag_cleaner(n).ok

---------------------------------------------------------------------------
(* The files.  A file is absent, holds a document, holds text that does    *)
(* not parse (garbage: from outside; partial: a write of this program that *)
(* did not finish), or is a backup made earlier in the current minute.     *)

Absent == [kind |-> "absent"]
Garbage == [kind |-> "garbage"]
Partial == [kind |-> "partial"]
OldBackup == [kind |-> "oldbackup"]
XmlFile(root) == [kind |-> "xml", root |-> root]

Exists(f) == f.kind # "absent"
Parses(f) == f.kind = "xml"

Files == [cfg |-> cfg, tmp |-> tmp, bak |-> bak]

NoDoc == <<>>
NoTrip == [phase |-> "none"]

\* a call ends: what it was, how it went, what it returned
Ended(op, out, ret) == [op |-> op, out |-> out, ret |-> ret]

\* a call of the store ends: also what it was called with and the value it
\* returned or left behind
Called(op, out, ret, args, val) ==
    [op |-> op, out |-> out, ret |-> ret, args |-> args, val |-> val]

---------------------------------------------------------------------------
(* The names the operations are called with. *)

nA == Str(<<"a">>)
nB == Str(<<"b">>)
nP == Str(<<"p">>)
nBlank == Str(<<" ">>)
nF == Str(<<"f">>)
nG == Str(<<"g">>)
nH == Str(<<"h">>)
nQ == Str(<<"q">>)
nAccent == Str(<<"U+00E9">>)
nWide == Str(<<"U+3000">>)
nQuote == Str(<<"k", "'">>)

CamNames == {nA}
PassNames == {nP, nBlank}

---------------------------------------------------------------------------
(* The store operations, called while no read or write is running. *)

TagVarsUnchanged == UNCHANGED <<tagIn, tagOut>>
SceneUnchanged == UNCHANGED <<scene, nops>>

\* what a store operation leaves alone
StoreOpFrame ==
    UNCHANGED <<cfg, tmp, bak, pc, doc, pre, faulted>> /\ TagVarsUnchanged
    /\ SceneUnchanged

SetPass(c, p) ==
    /\ pc = "idle"
    /\ cams' = set_pass(cams, c, p)
    /\ last' = Called("set_pass", "ok", "pass", <<c, p>>,
                      set_pass(cams, c, p)[c].passes[p])
    /\ rt' = NoTrip
    /\ StoreOpFrame

ResetPass(c, p) ==
    /\ pc = "idle"
    /\ LET r == reset_pass(cams, c, p)
       IN  /\ cams' = IF r.ok THEN r.val ELSE cams
           /\ last' = Called("reset_pass", IF r.ok THEN "ok" ELSE "raised",
                             IF r.ok THEN "None" ELSE r.exc, <<c, p>>, PyNone)
    /\ rt' = NoTrip
    /\ StoreOpFrame

ResetCam(c) ==
    /\ pc = "idle"
    /\ LET r == reset_cam(cams, c)
       IN  /\ cams' = IF r.ok THEN r.val ELSE cams
           /\ last' = Called("reset_cam", IF r.ok THEN "ok" ELSE "raised",
                             IF r.ok THEN "None" ELSE r.exc, <<c>>, PyNone)
    /\ rt' = NoTrip
    /\ StoreOpFrame

\* reset_all empties the store: a read that follows reads into an empty store
ResetAll ==
    /\ pc = "idle"
    /\ cams' = reset_all(cams)
    /\ last' = Ended("reset_all", "ok", "None")
    /\ rt' = IF rt.phase = "written" THEN rt ELSE NoTrip
    /\ StoreOpFrame

\* set_cam(cam_name)
SetCam(c) ==
    /\ pc = "idle"
    /\ cams' = set_cam(cams, c)
    /\ last' = Called("set_cam", "ok", "cam", <<c>>, set_cam(cams, c)[c])
    /\ rt' = NoTrip
    /\ StoreOpFrame

\* get_pass that creates what it does not find, as set_pass does
GetPass_Creates(c, p) ==
    /\ pc = "idle"
    /\ cams' = set_pass(cams, c, p)
    /\ last' = Called("get_pass", "ok", "pass", <<c, p>>,
                      set_pass(cams, c, p)[c].passes[p])
    /\ rt' = NoTrip
    /\ StoreOpFrame

\* get_pass(cam_name, pass_name)
GetPass(c, p) ==
    /\ pc = "idle"
    /\ LET r == get_pass(cams, c, p)
       IN  last' = Called("get_pass", IF r.ok THEN "ok" ELSE "raised",
                          IF r.ok THEN "pass" ELSE r.exc, <<c, p>>,
                          IF r.ok THEN r.val ELSE PyNone)
    /\ rt' = NoTrip
    /\ UNCHANGED cams
    /\ StoreOpFrame

\* get_all_passes()
GetAllPasses ==
    /\ pc = "idle"
    /\ last' = Called("get_all_passes", "ok", "list", <<>>,
                      [list |-> get_all_passes(cams)])
    /\ rt' = NoTrip
    /\ UNCHANGED cams
    /\ StoreOpFrame

\* what a call that works on the scene leaves alone
SceneOpFrame ==
    UNCHANGED <<cfg, tmp, bak, pc, doc, pre, faulted>> /\ TagVarsUnchanged

\* save_state that goes on to put the store into the config file, as
\* rd_save does after it
SaveState_AndWrite(c, p, o) ==
    /\ pc = "idle" /\ nops < MaxSceneOps
    /\ \E r \in {save_state(cams, scene, c, p, o)} :
           /\ cams' = r.store
           /\ cfg' = IF SerializeRaises(r.store) THEN cfg ELSE XmlFile(Serialize(r.store))
           /\ last' = Called("save_state", IF r.exc = "" THEN "ok" ELSE "raised",
                             IF r.exc = "" THEN "None" ELSE r.exc, <<c, p, o>>,
                             [skipped |-> r.skipped,
                              before |-> set_pass(cams, c, p)[c].passes[p]])
    /\ nops' = nops + 1
    /\ rt' = NoTrip
    /\ UNCHANGED <<scene, tmp, bak, pc, doc, pre, faulted>> /\ TagVarsUnchanged

\* save_state(cam_name, pass_name, options)
SaveState(c, p, o) ==
    /\ pc = "idle" /\ nops < MaxSceneOps
    /\ \E r \in {save_state(cams, scene, c, p, o)} :
           /\ cams' = r.store
           /\ last' = Called("save_state", IF r.exc = "" THEN "ok" ELSE "raised",
                             IF r.exc = "" THEN "None" ELSE r.exc, <<c, p, o>>,
                             [skipped |-> r.skipped,
                              before |-> set_pass(cams, c, p)[c].passes[p]])
    /\ nops' = nops + 1
    /\ rt' = NoTrip
    /\ UNCHANGED scene
    /\ SceneOpFrame

\* load_state that looks the pass up with set_pass
LoadState_Creates(c, p, o) ==
    /\ pc = "idle" /\ nops < MaxSceneOps
    /\ \E r \in {load_state(set_pass(cams, c, p), scene, c, p, o)} :
           /\ scene' = r.scene
           /\ last' = Called("load_state", IF r.exc = "" THEN "ok" ELSE "raised",
                             IF r.exc = "" THEN "None" ELSE r.exc, <<c, p, o>>,
                             PyNone)
    /\ cams' = set_pass(cams, c, p)
    /\ nops' = nops + 1
    /\ rt' = NoTrip
    /\ SceneOpFrame

\* load_state(cam_name, pass_name, options)
LoadState(c, p, o) ==
    /\ pc = "idle" /\ nops < MaxSceneOps
    /\ \E r \in {load_state(cams, scene, c, p, o)} :
           /\ scene' = r.scene
           /\ last' = Called("load_state", IF r.exc = "" THEN "ok" ELSE "raised",
                             IF r.exc = "" THEN "None" ELSE r.exc, <<c, p, o>>,
                             PyNone)
    /\ nops' = nops + 1
    /\ rt' = NoTrip
    /\ UNCHANGED cams
    /\ SceneOpFrame

---------------------------------------------------------------------------
(* read_config_xml, lines 81-230.  The parse of line 90 and, when it        *)
(* succeeds, the reconstruction are one step: they touch no file.  The      *)
(* rename and the remove of the recovery path are steps of their own.       *)

ReadFrame == UNCHANGED <<doc>> /\ TagVarsUnchanged /\ SceneUnchanged

\* a read that starts right after a write returned, on an empty store
TripAtReadBegin ==
    IF rt.phase = "written" /\ cams = EmptyDict
    THEN [rt EXCEPT !.phase = "reading"] ELSE NoTrip

TripAtReadEnd(r) ==
    IF r.phase = "reading" THEN [r EXCEPT !.phase = "done"] ELSE NoTrip

\* the IOError handler without the assignment of line 96
ReadAbsent_Keeps ==
    /\ pc = "idle" /\ ~Exists(cfg)
    /\ pre' = Files /\ faulted' = FALSE
    /\ last' = Ended("read", "absent", "None")
    /\ rt' = NoTrip
    /\ UNCHANGED <<cams, cfg, tmp, bak, pc>> /\ ReadFrame

\* lines 88-97: no file, IOError
ReadAbsent ==
    /\ pc = "idle" /\ ~Exists(cfg)
    /\ cams' = EmptyDict
    /\ pre' = Files /\ faulted' = FALSE
    /\ last' = Ended("read", "absent", "None")
    /\ rt' = TripAtReadEnd(TripAtReadBegin)
    /\ UNCHANGED <<cfg, tmp, bak, pc>> /\ ReadFrame

\* lines 93-97 and 117-121: the file is there and cannot be opened or read
ReadOpenFault ==
    /\ pc = "idle" /\ Exists(cfg)
    /\ cams' = EmptyDict
    /\ pre' = Files /\ faulted' = TRUE
    /\ last' = Ended("read", "unreadable", "None")
    /\ rt' = NoTrip
    /\ UNCHANGED <<cfg, tmp, bak, pc>> /\ ReadFrame

\* lines 99-103: ParseError
ReadCorrupt ==
    /\ pc = "idle" /\ Exists(cfg) /\ ~Parses(cfg)
    /\ pc' = "r_backup"
    /\ pre' = Files /\ faulted' = FALSE
    /\ last' = Ended("read", "running", "none")
    /\ rt' = TripAtReadBegin
    /\ UNCHANGED <<cams, cfg, tmp, bak>> /\ ReadFrame

\* lines 90-91 and 123-230: the document parses and is reconstructed
ReadParsed ==
    /\ pc = "idle" /\ Parses(cfg)
    /\ cams' = ParseConfig(cams, cfg.root)
    /\ pre' = Files /\ faulted' = FALSE
    /\ last' = Ended("read",
                     IF ReadCams(cams, FindByType(cfg.root, S_CAM)).exc # ""
                     THEN "parse_failed" ELSE "parsed",
                     "None")
    /\ rt' = TripAtReadEnd(TripAtReadBegin)
    /\ UNCHANGED <<cfg, tmp, bak, pc>> /\ ReadFrame

\* the handler of lines 109-111 without its os.remove
ReadBackup_NoRemove ==
    /\ pc = "r_backup"
    /\ \/ /\ ~Exists(bak)
          /\ bak' = cfg /\ cfg' = Absent
          /\ last' = Ended("read", "backed_up", "None")
       \/ /\ Exists(bak)
          /\ UNCHANGED <<cfg, bak>>
          /\ last' = Ended("read", "deleted", "None")
    /\ cams' = EmptyDict /\ pc' = "idle"
    /\ rt' = TripAtReadEnd(rt)
    /\ UNCHANGED <<tmp, pre, faulted>> /\ ReadFrame

\* lines 104-110: os.rename(cfg_path, backup_filepath); lines 113-115 when
\* it worked; OSError when the backup name is taken or the device fails
ReadBackup ==
    /\ pc = "r_backup"
    /\ \/ /\ ~Exists(bak)
          /\ bak' = cfg /\ cfg' = Absent
          /\ cams' = EmptyDict /\ pc' = "idle"
          /\ last' = Ended("read", "backed_up", "None")
          /\ rt' = TripAtReadEnd(rt)
          /\ UNCHANGED faulted
       \/ /\ Exists(bak)
          /\ pc' = "r_remove"
          /\ UNCHANGED <<cams, cfg, bak, last, rt, faulted>>
       \/ /\ ~Exists(bak)
          /\ pc' = "r_remove" /\ faulted' = TRUE
          /\ UNCHANGED <<cams, cfg, bak, last, rt>>
    /\ UNCHANGED <<tmp, pre>> /\ ReadFrame

\* line 111: os.remove(cfg_path), outside any try; lines 113-115 when it
\* worked; when it raises the OSError leaves read_config_xml
ReadRemove ==
    /\ pc = "r_remove"
    /\ \/ /\ cfg' = Absent
          /\ cams' = EmptyDict
          /\ last' = Ended("read", "deleted", "None")
          /\ rt' = TripAtReadEnd(rt)
          /\ UNCHANGED faulted
       \/ /\ faulted' = TRUE
          /\ last' = Ended("read", "raised", "OSError")
          /\ rt' = NoTrip
          /\ UNCHANGED <<cams, cfg>>
    /\ pc' = "idle"
    /\ UNCHANGED <<tmp, bak, pre>> /\ ReadFrame

---------------------------------------------------------------------------
(* write_config_xml, lines 235-329.  Every path that returns, returns None. *)

WriteFrame == UNCHANGED <<cams, bak>> /\ TagVarsUnchanged /\ SceneUnchanged

\* a write that returned with no device fault: the round trip may follow
TripAtWriteEnd(f) == IF f THEN NoTrip ELSE [phase |-> "written", snap |-> cams]

\* lines 243-298: a tag cannot be made, the exception leaves the call
WriteRaises ==
    /\ pc = "idle" /\ SerializeRaises(cams)
    /\ pre' = Files /\ faulted' = FALSE
    /\ last' = Ended("write", "raised", "IndexError or AttributeError")
    /\ rt' = NoTrip
    /\ UNCHANGED <<cfg, tmp, pc, doc>> /\ WriteFrame

\* lines 243-302: the tree is built
WriteBuild ==
    /\ pc = "idle" /\ ~SerializeRaises(cams)
    /\ doc' = Serialize(cams)
    /\ pc' = "w_tmp"
    /\ pre' = Files /\ faulted' = FALSE
    /\ last' = Ended("write", "running", "none")
    /\ rt' = NoTrip
    /\ UNCHANGED <<cfg, tmp>> /\ WriteFrame

\* the write of line 309 aimed at cfg_path instead of cfg_tmp
WriteTmp_InPlace ==
    /\ pc = "w_tmp"
    /\ \/ /\ cfg' = XmlFile(doc)
          /\ pc' = "w_remove"
          /\ UNCHANGED <<doc, last, faulted, rt>>
       \/ /\ cfg' \in {cfg, Partial}
          /\ pc' = "idle" /\ doc' = NoDoc /\ faulted' = TRUE
          /\ last' = Ended("write", "tmp_failed", "None")
          /\ rt' = NoTrip
    /\ UNCHANGED <<tmp, pre>> /\ WriteFrame

\* lines 307-315: cfg_tree.write(cfg_tmp); a failed write leaves the temp
\* file as it was or holding part of the document
WriteTmp ==
    /\ pc = "w_tmp"
    /\ \/ /\ tmp' = XmlFile(doc)
          /\ pc' = "w_remove"
          /\ UNCHANGED <<doc, last, faulted, rt>>
       \/ /\ tmp' \in {tmp, Partial}
          /\ pc' = "idle" /\ doc' = NoDoc /\ faulted' = TRUE
          /\ last' = Ended("write", "tmp_failed", "None")
          /\ rt' = NoTrip
    /\ UNCHANGED <<cfg, pre>> /\ WriteFrame

\* lines 318-320 and 322-327: os.remove(cfg_path); OSError when there is
\* no file, caught by the bare except
WriteRemove ==
    /\ pc = "w_remove"
    /\ \/ /\ Exists(cfg)
          /\ cfg' = Absent
          /\ pc' = "w_rename"
          /\ UNCHANGED <<doc, last, faulted, rt>>
       \/ /\ ~Exists(cfg)
          /\ pc' = "idle" /\ doc' = NoDoc
          /\ last' = Ended("write", "swap_failed", "None")
          /\ rt' = TripAtWriteEnd(faulted)
          /\ UNCHANGED <<cfg, faulted>>
       \/ /\ Exists(cfg)
          /\ pc' = "idle" /\ doc' = NoDoc /\ faulted' = TRUE
          /\ last' = Ended("write", "swap_failed", "None")
          /\ rt' = NoTrip
          /\ UNCHANGED cfg
    /\ UNCHANGED <<tmp, pre>> /\ WriteFrame

\* lines 321-329: os.rename(cfg_tmp, cfg_path)
WriteRename ==
    /\ pc = "w_rename"
    /\ \/ /\ cfg' = tmp /\ tmp' = Absent
          /\ last' = Ended("write", "ok", "None")
          /\ rt' = TripAtWriteEnd(faulted)
          /\ UNCHANGED faulted
       \/ /\ faulted' = TRUE
          /\ last' = Ended("write", "swap_failed", "None")
          /\ rt' = NoTrip
          /\ UNCHANGED <<cfg, tmp>>
    /\ pc' = "idle" /\ doc' = NoDoc
    /\ UNCHANGED pre /\ WriteFrame

\* the process dies inside a call; the next one starts with RadishIO's
\* constructor (line 46).  Dying inside the write of line 309 may leave
\* part of the document in the temp file.
Crash ==
    /\ pc # "idle"
    /\ cams' = EmptyDict
    /\ pc' = "idle" /\ doc' = NoDoc
    /\ tmp' \in (IF pc = "w_tmp" THEN {tmp, Partial} ELSE {tmp})
    /\ last' = Ended("crash", pc, "none")
    /\ rt' = NoTrip
    /\ UNCHANGED <<cfg, bak, pre, faulted>> /\ TagVarsUnchanged /\ SceneUnchanged

---------------------------------------------------------------------------
(* The config files the program may find when it starts. *)

S_True == PyStrOf(Bool(TRUE))
S_False == PyStrOf(Bool(FALSE))

RootEl(kids) == Element(T_ROOT, <<>>, kids)
CamEl(n, kids) == Element(Upper(n), [realName |-> n, type |-> S_CAM], kids)
PassEl(n, kids) == Element(Upper(n), [realName |-> n, type |-> S_PASS], kids)
LayerEl(n, on) == Element(n, [realName |-> n, on |-> on], <<>>)

\* the example of the round trip: two layers, one on, one off
DocLayers ==
    RootEl(<<CamEl(<<"a">>, <<PassEl(<<"p">>, <<
        Element(T_LAYERS, <<>>, <<LayerEl(<<"f">>, S_True), LayerEl(<<"g">>, S_False)>>)
    >>)>>)>>)

\* one entity of every category, every flag written as False or 0
DocAll ==
    RootEl(<<CamEl(<<"a">>, <<PassEl(<<"p">>, <<
        Element(T_LAYERS, <<>>, <<LayerEl(<<"f">>, <<"0">>)>>),
        Element(T_LIGHTS, <<>>, <<
            Element(<<"f">>, [realName |-> <<"f">>, instanceCount |-> <<"1">>,
                              on |-> S_True, enabled |-> S_False],
                    <<Element(<<"g">>, [realName |-> <<"g">>], <<>>)>>)>>),
        Element(T_EFFECTS, <<>>, <<
            Element(<<"f">>, [realName |-> <<"f">>, isActive |-> <<"1">>], <<>>)>>),
        Element(T_ELEMENTS, <<>>, <<
            Element(<<"f">>, [realName |-> <<"f">>, enabled |-> S_False], <<>>)>>)
    >>)>>)>>)

\* a CAM node without realName after a good camera
DocBadCam ==
    RootEl(<<CamEl(<<"a">>, <<PassEl(<<"p">>, <<
                 Element(T_LAYERS, <<>>, <<LayerEl(<<"f">>, S_True)>>)>>)>>),
             Element(<<"B">>, [type |-> S_CAM], <<>>)>>)

\* a light instance child without realName after a good light
DocBadInstance ==
    RootEl(<<CamEl(<<"a">>, <<PassEl(<<"p">>, <<
        Element(T_LIGHTS, <<>>, <<
            Element(<<"f">>, [realName |-> <<"f">>, instanceCount |-> <<"0">>,
                              on |-> S_True], <<>>),
            Element(<<"g">>, [realName |-> <<"g">>, instanceCount |-> <<"1">>],
                    <<Element(<<"h">>, <<>>, <<>>)>>)>>)
    >>)>>)>>)

\* lower-case and unknown flag strings, an unknown attribute, a layer
\* without realName, a root child that is no camera
DocOdd ==
    RootEl(<<Element(<<"N","O","T","E">>, <<>>, <<>>),
             CamEl(<<"a">>, <<PassEl(<<"p">>, <<
                 Element(T_LAYERS, <<>>, <<
                     Element(<<"f">>, [realName |-> <<"f">>, on |-> <<"t","r","u","e">>,
                                       foo |-> <<"x">>], <<>>),
                     Element(<<"g">>, [on |-> <<"y","e","s">>], <<>>)>>)>>)>>)>>)

\* a PASS node without realName after a good pass
DocBadPass ==
    RootEl(<<CamEl(<<"a">>, <<
        PassEl(<<"p">>, <<Element(T_LAYERS, <<>>, <<LayerEl(<<"g">>, S_False)>>)>>),
        Element(<<"Q">>, [type |-> S_PASS], <<>>)>>)>>)

\* a camera without passes, and a pass whose name is one space
DocBlankPass ==
    RootEl(<<CamEl(<<"b">>, <<>>),
             CamEl(<<"a">>, <<PassEl(<<" ">>, <<
                 Element(T_LAYERS, <<>>, <<LayerEl(<<"f">>, S_False)>>)>>)>>)>>)

InitDocs ==
    {DocLayers, DocAll, DocBadCam, DocBadPass, DocBadInstance, DocOdd, DocBlankPass}

InitConfigs == {Absent, Garbage} \cup {XmlFile(d) : d \in InitDocs}

---------------------------------------------------------------------------
(* The scenes the artist works on. *)

PyTrue == Bool(TRUE)
PyFalse == Bool(FALSE)

EmptyScene == [layers |-> <<>>, lights |-> <<>>, effects |-> <<>>, elements |-> <<>>]

\* three layers, one of them with a name that is not ASCII; a light with an
\* instance, and a light that has 'enabled' and no 'on'; two atmospherics
\* of one name; a render element
SceneMain ==
    [layers |-> <<SceneLayer(nF, PyTrue), SceneLayer(nAccent, PyTrue),
                  SceneLayer(nG, PyFalse)>>,
     lights |-> <<SceneLight(nF, PyTrue, PyNone, 1), SceneLight(nG, PyTrue, PyNone, 1),
                  SceneLight(nH, PyNone, PyFalse, 2)>>,
     effects |-> <<SceneEffect(nF, PyTrue), SceneEffect(nF, PyFalse)>>,
     elements |-> <<SceneElement(nF, PyFalse)>>]

\* the scene after the artist deleted and switched objects
SceneLess ==
    [layers |-> <<SceneLayer(nG, PyTrue)>>,
     lights |-> <<SceneLight(nH, PyNone, PyTrue, 1)>>,
     effects |-> <<>>,
     elements |-> <<SceneElement(nG, PyTrue)>>]

\* a light whose name holds an apostrophe, between two plain lights
SceneQuote ==
    [layers |-> <<SceneLayer(nF, PyFalse)>>,
     lights |-> <<SceneLight(nF, PyTrue, PyNone, 1), SceneLight(nQuote, PyTrue, PyNone, 2),
                  SceneLight(nG, PyFalse, PyNone, 3)>>,
     effects |-> <<>>,
     elements |-> <<>>]

\* a layer whose name is one ideographic space, between two plain layers
SceneWide ==
    [layers |-> <<SceneLayer(nF, PyTrue), SceneLayer(nWide, PyTrue),
                  SceneLayer(nG, PyFalse)>>,
     lights |-> <<>>,
     effects |-> <<>>,
     elements |-> <<>>]

Scenes == {SceneMain, SceneLess, SceneQuote, SceneWide}

\* the artist edits the scene
SceneChange(to) ==
    /\ pc = "idle" /\ nops < MaxSceneOps
    /\ to # scene
    /\ scene' = to
    /\ nops' = nops + 1
    /\ last' = Ended("edit", "ok", "none")
    /\ UNCHANGED <<cams, rt>>
    /\ SceneOpFrame

\* the options of the dialog
Options(layers, lights, effects, elements) ==
    [layers |-> layers, lights |-> lights, effects |-> effects, elements |-> elements]

AllOptions == Options(TRUE, TRUE, TRUE, TRUE)

OptionSets == {AllOptions, Options(TRUE, FALSE, FALSE, FALSE)}

---------------------------------------------------------------------------
(* The store with its files: RadishIO(runtime) starts empty (line 46);     *)
(* read and write are then called on it, as the constructor and the        *)
(* dialog do.                                                              *)

Init ==
    /\ cams = EmptyDict
    /\ cfg \in InitConfigs
    /\ tmp = Absent
    /\ bak \in {Absent, OldBackup}
    /\ pc = "idle"
    /\ doc = NoDoc
    /\ last = Ended("init", "ok", "none")
    /\ pre = [cfg |-> cfg, tmp |-> tmp, bak |-> bak]
    /\ faulted = FALSE
    /\ rt = NoTrip
    /\ tagIn = <<>>
    /\ tagOut = <<>>
    /\ scene = EmptyScene
    /\ nops = 0

Next ==
    \/ \E c \in CamNames, p \in PassNames : SetPass(c, p)
    \/ \E c \in CamNames, p \in PassNames : ResetPass(c, p)
    \/ \E c \in CamNames : ResetCam(c)
    \/ ResetAll
    \/ ReadAbsent
    \/ ReadOpenFault
    \/ ReadCorrupt
    \/ ReadParsed
    \/ ReadBackup
    \/ ReadRemove
    \/ WriteRaises
    \/ WriteBuild
    \/ WriteTmp
    \/ WriteRemove
    \/ WriteRename
    \/ Crash

Spec == Init /\ [][Next]_vars

---------------------------------------------------------------------------
(* The store and the scene: the dialog records and restores the scene      *)
(* under two cameras and calls the accessors of the store.  Nothing reads  *)
(* or writes the config file here.                                         *)

StoreCams == {nA, nB}
StorePasses == {nP, nQ}

\* the pass the dialog records and restores
SavePasses == {nP}

InitStore ==
    /\ cams = EmptyDict
    /\ cfg = XmlFile(RootEl(<<>>))
    /\ tmp = Absent
    /\ bak = Absent
    /\ pc = "idle"
    /\ doc = NoDoc
    /\ last = Ended("init", "ok", "none")
    /\ pre = [cfg |-> cfg, tmp |-> tmp, bak |-> bak]
    /\ faulted = FALSE
    /\ rt = NoTrip
    /\ tagIn = <<>>
    /\ tagOut = <<>>
    /\ scene \in Scenes
    /\ nops = 0

NextStore ==
    \/ \E c \in StoreCams : SetCam(c)
    \/ \E c \in StoreCams, p \in StorePasses : SetPass(c, p)
    \/ \E c \in StoreCams, p \in StorePasses : GetPass(c, p)
    \/ GetAllPasses
    \/ \E c \in StoreCams, p \in SavePasses, o \in OptionSets : SaveState(c, p, o)
    \/ \E c \in StoreCams, p \in SavePasses, o \in OptionSets : LoadState(c, p, o)
    \/ \E to \in Scenes : SceneChange(to)
    \/ \E c \in StoreCams, p \in StorePasses : ResetPass(c, p)
    \/ \E c \in StoreCams : ResetCam(c)
    \/ ResetAll

SpecStore == InitStore /\ [][NextStore]_vars

---------------------------------------------------------------------------
(* The store, the scene and the files: one camera and one pass, recorded   *)
(* with every option set, and the config file written and read back.  The  *)
(* file at the start is the one write_config_xml makes of an empty store,  *)
(* so every document read was written by write_config_xml.                 *)

SavedScenes == {SceneMain, SceneLess}

InitSaved == InitStore /\ scene \in SavedScenes

NextSaved ==
    \/ SetCam(nA)
    \/ SetPass(nA, nP)
    \/ GetPass(nA, nP)
    \/ GetAllPasses
    \/ SaveState(nA, nP, AllOptions)
    \/ LoadState(nA, nP, AllOptions)
    \/ \E to \in SavedScenes : SceneChange(to)
    \/ ResetPass(nA, nP)
    \/ ResetCam(nA)
    \/ ResetAll
    \/ WriteBuild
    \/ WriteTmp
    \/ WriteRemove
    \/ WriteRename
    \/ ReadAbsent
    \/ ReadParsed

SpecSaved == InitSaved /\ [][NextSaved]_vars

---------------------------------------------------------------------------
(* The dialog, radish_ui.py: rd_save and rd_load read the camera name, the  *)
(* pass name and the two options of the dialog, then call save_state and   *)
(* write, or load_state.  Each handler is one step; no device fails.        *)

S_BLANK == Str(<<"B", "L", "A", "N", "K">>)

\* _rd_get_settings, lines 295-330: ValueError for a name that is not
\* ASCII, 'BLANK' for an empty name
rd_get_settings(c, p) ==
    IF ~is_ascii(c) THEN Raised("ValueError")
    ELSE IF ~is_ascii(p) THEN Raised("ValueError")
    ELSE Ok([cam |-> IF c = Str(<<>>) THEN S_BLANK ELSE c,
             pass |-> IF p = Str(<<>>) THEN S_BLANK ELSE p])

\* write_config_xml, lines 235-329, when no device fails: [cfg, tmp, exc].
\* Without a config file os.remove raises, the bare except returns and the
\* document stays in the temp file.
write_config_xml(store, c, t) ==
    IF SerializeRaises(store)
    THEN [cfg |-> c, tmp |-> t, exc |-> "IndexError"]
    ELSE IF Exists(c)
    THEN [cfg |-> XmlFile(Serialize(store)), tmp |-> Absent, exc |-> ""]
    ELSE [cfg |-> c, tmp |-> XmlFile(Serialize(store)), exc |-> ""]

\* what a handler of the dialog leaves alone
UiFrame == UNCHANGED <<bak, pc, doc, pre, faulted>> /\ TagVarsUnchanged

\* rd_save without the check of the names
RdSave_Unchecked(c, p, o) ==
    /\ pc = "idle" /\ nops < MaxSceneOps
    /\ \E r \in {save_state(cams, scene, c, p, o)} :
       \E w \in {IF r.exc = "" THEN write_config_xml(r.store, cfg, tmp)
                 ELSE [cfg |-> cfg, tmp |-> tmp, exc |-> r.exc]} :
           /\ cams' = r.store /\ cfg' = w.cfg /\ tmp' = w.tmp
           /\ last' = Called("rd_save", "ok", "None", <<c, p, o>>,
                             [settings |-> TRUE, caught |-> w.exc])
    /\ nops' = nops + 1
    /\ rt' = NoTrip
    /\ UNCHANGED scene /\ UiFrame

\* rd_save, lines 338-358: the bare except of line 355 catches whatever
\* save_state or write raises
RdSave(c, p, o) ==
    /\ pc = "idle" /\ nops < MaxSceneOps
    /\ \E s \in {rd_get_settings(c, p)} :
           IF ~s.ok
           THEN /\ UNCHANGED <<cams, cfg, tmp>>
                /\ last' = Called("rd_save", "ok", "None", <<c, p, o>>,
                                  [settings |-> FALSE, caught |-> s.exc])
           ELSE \E r \in {save_state(cams, scene, s.val.cam, s.val.pass, o)} :
                \E w \in {IF r.exc = "" THEN write_config_xml(r.store, cfg, tmp)
                          ELSE [cfg |-> cfg, tmp |-> tmp, exc |-> r.exc]} :
                    /\ cams' = r.store /\ cfg' = w.cfg /\ tmp' = w.tmp
                    /\ last' = Called("rd_save", "ok", "None", <<c, p, o>>,
                                      [settings |-> TRUE, caught |-> w.exc])
    /\ nops' = nops + 1
    /\ rt' = NoTrip
    /\ UNCHANGED scene /\ UiFrame

\* rd_load, lines 361-377
RdLoad(c, p, o) ==
    /\ pc = "idle" /\ nops < MaxSceneOps
    /\ \E s \in {rd_get_settings(c, p)} :
           IF ~s.ok
           THEN /\ UNCHANGED scene
                /\ last' = Called("rd_load", "ok", "None", <<c, p, o>>,
                                  [settings |-> FALSE, caught |-> s.exc])
           ELSE \E r \in {load_state(cams, scene, s.val.cam, s.val.pass, o)} :
                    /\ scene' = r.scene
                    /\ last' = Called("rd_load", "ok", "None", <<c, p, o>>,
                                      [settings |-> TRUE, caught |-> r.exc])
    /\ nops' = nops + 1
    /\ rt' = NoTrip
    /\ UNCHANGED <<cams, cfg, tmp>> /\ UiFrame

\* what the artist types into the dialog: a plain name, a name that is not
\* ASCII, nothing
UiCams == {nA, nAccent, Str(<<>>)}
UiPasses == {nP, nWide}

\* the two check boxes; 'effects' and 'elements' stay None (lines 168-172,
\* 325-326), which save_state and load_state test as false
UiOptions == {Options(l, y, FALSE, FALSE) : l \in BOOLEAN, y \in BOOLEAN}

InitUi ==
    /\ cams = EmptyDict
    /\ cfg \in {Absent, XmlFile(RootEl(<<>>))}
    /\ tmp = Absent
    /\ bak = Absent
    /\ pc = "idle"
    /\ doc = NoDoc
    /\ last = Ended("init", "ok", "none")
    /\ pre = [cfg |-> cfg, tmp |-> tmp, bak |-> bak]
    /\ faulted = FALSE
    /\ rt = NoTrip
    /\ tagIn = <<>>
    /\ tagOut = <<>>
    /\ scene \in Scenes
    /\ nops = 0

NextUi ==
    \/ \E c \in UiCams, p \in UiPasses, o \in UiOptions : RdSave(c, p, o)
    \/ \E c \in UiCams, p \in UiPasses, o \in UiOptions : RdLoad(c, p, o)
    \/ \E to \in Scenes : SceneChange(to)

SpecUi == InitUi /\ [][NextUi]_vars

---------------------------------------------------------------------------
(* xml_tag_cleaner on its own: every string of at most MaxTagLen           *)
(* characters over TagAlphabet, cleaned once and then cleaned again.       *)

TagAlphabet == {"a", "x", "X", "m", "l", "1", "_", " ", "-"}

TagInputs == UNION {[1..n -> TagAlphabet] : n \in 0..MaxTagLen}

InitTag ==
    /\ tagIn \in TagInputs
    /\ tagOut = <<>>
    /\ cams = EmptyDict
    /\ cfg = Absent /\ tmp = Absent /\ bak = Absent
    /\ pc = "idle"
    /\ doc = NoDoc
    /\ last = Ended("init", "ok", "none")
    /\ pre = [cfg |-> cfg, tmp |-> tmp, bak |-> bak]
    /\ faulted = FALSE
    /\ rt = NoTrip
    /\ scene = EmptyScene
    /\ nops = 0

TagFrame ==
    UNCHANGED <<cams, cfg, tmp, bak, pc, doc, last, pre, faulted, rt, tagIn>>
    /\ SceneUnchanged

\* xml_tag_cleaner(tagIn)
CleanTag ==
    /\ tagOut = <<>>
    /\ tagOut' = <<xml_tag_cleaner(Str(tagIn))>>
    /\ TagFrame

\* xml_tag_cleaner(xml_tag_cleaner(tagIn)), when the first call returned
CleanTagAgain ==
    /\ Len(tagOut) = 1 /\ tagOut[1].ok
    /\ tagOut' = Append(tagOut, xml_tag_cleaner(tagOut[1].val))
    /\ TagFrame

NextTag == CleanTag \/ CleanTagAgain

SpecTag == InitTag /\ [][NextTag]_vars

---------------------------------------------------------------------------
(* xml_get_bool on its own: None, the two booleans and every string of at  *)
(* most MaxBoolLen characters over BoolAlphabet.  tagIn holds the input,   *)
(* tagOut the outcome of the call.                                         *)

BoolAlphabet == {"t", "R", "u", "E", "1", "0", " ", "U+00E9"}

BoolInputs ==
    {PyNone, Bool(TRUE), Bool(FALSE)}
    \cup {Str(s) : s \in UNION {[1..n -> BoolAlphabet] : n \in 0..MaxBoolLen}}

InitBool ==
    /\ tagIn \in BoolInputs
    /\ tagOut = <<>>
    /\ cams = EmptyDict
    /\ cfg = Absent /\ tmp = Absent /\ bak = Absent
    /\ pc = "idle"
    /\ doc = NoDoc
    /\ last = Ended("init", "ok", "none")
    /\ pre = [cfg |-> cfg, tmp |-> tmp, bak |-> bak]
    /\ faulted = FALSE
    /\ rt = NoTrip
    /\ scene = EmptyScene
    /\ nops = 0

\* xml_get_bool(tagIn)
GetBool ==
    /\ tagOut = <<>>
    /\ tagOut' = <<xml_get_bool_call(tagIn)>>
    /\ TagFrame

NextBool == GetBool

SpecBool == InitBool /\ [][NextBool]_vars

---------------------------------------------------------------------------
(* The claims about xml_tag_cleaner, checked under SpecTag.                *)

S_XML == <<"X","M","L">>

\* C2: xml_tag_cleaner is total: for every input string, the empty string
\* and the strings made only of whitespace included, it raises nothing and
\* returns a non-empty string.
C2_TagCleanerTotal ==
    Len(tagOut) >= 1 => (tagOut[1].ok /\ Len(tagOut[1].val.str) > 0)

\* C3, as claimed: xml_tag_cleaner is idempotent: cleaning the cleaned
\* string gives the cleaned string again.
C3_TagCleanerIdempotent ==
    Len(tagOut) = 2 => tagOut[2] = tagOut[1]

\* C3, amended: when xml_tag_cleaner(s) returns t, xml_tag_cleaner(t)
\* returns t itself if t begins with a letter and not with XML in any
\* letter case, and returns '_' + t otherwise (t begins with '_').
C3_SecondCleanPrepends ==
    Len(tagOut) = 2 =>
        LET t == tagOut[1].val.str
        IN  tagOut[2] = Ok(Str(IF IsAlphaChar(t[1]) /\ ~StartsWith(Upper(t), S_XML)
                               THEN t ELSE <<"_">> \o t))

\* C3, the case: 'xml' is cleaned to '_xml', and that to '__xml'
C3_Witness ==
    /\ Len(tagOut) = 2
    /\ tagIn = <<"x","m","l">>
    /\ tagOut[1] = Ok(Str(<<"_","x","m","l">>))
    /\ tagOut[2] = Ok(Str(<<"_","_","x","m","l">>))

---------------------------------------------------------------------------
(* The claims about read_config_xml and write_config_xml, checked under    *)
(* Spec.  A call has ended when last names it with an outcome other than   *)
(* "running"; pre then holds the files it found and faulted tells whether  *)
(* a device fault struck it.                                               *)

ReadEnded == last.op = "read" /\ last.out # "running"
WriteEnded == last.op = "write" /\ last.out # "running"

BoolLayers(p) == \A k \in DOMAIN p.layers : IsBool(p.layers[k].on)

SameLayers(p, q) ==
    /\ DOMAIN p.layers = DOMAIN q.layers
    /\ \A k \in DOMAIN p.layers :
          /\ q.layers[k].name = p.layers[k].name
          /\ q.layers[k].on = p.layers[k].on

\* C1: round trip: after write_config_xml and then read_config_xml into an
\* empty store, with no device fault, every (camera, pass) of the written
\* store whose layers have boolean `on` values is in the store again, with
\* the same layer names and the same `on` value for each layer.
C1_RoundTrip ==
    (rt.phase = "done" /\ ~faulted) =>
        \A c \in DOMAIN rt.snap : \A p \in DOMAIN rt.snap[c].passes :
            BoolLayers(rt.snap[c].passes[p]) =>
                /\ c \in DOMAIN cams
                /\ p \in DOMAIN cams[c].passes
                /\ SameLayers(rt.snap[c].passes[p], cams[c].passes[p])

\* C4: a config file that is there and does not parse: with no device
\* fault, read_config_xml ends with an empty store and no file at the
\* config path; the file was renamed to the backup name when that name was
\* free, and was deleted, the existing backup untouched, when it was taken.
C4_CorruptConfigRecovered ==
    (ReadEnded /\ ~faulted /\ Exists(pre.cfg) /\ ~Parses(pre.cfg)) =>
        /\ cams = EmptyDict
        /\ cfg = Absent
        /\ tmp = pre.tmp
        /\ IF Exists(pre.bak)
           THEN bak = pre.bak /\ last.out = "deleted"
           ELSE bak = pre.cfg /\ last.out = "backed_up"

\* C4, the case: the backup name was taken, the corrupt file was deleted
C4_Witness ==
    /\ ReadEnded /\ ~faulted
    /\ pre.cfg = Garbage /\ pre.bak = OldBackup
    /\ cfg = Absent /\ bak = OldBackup /\ cams = EmptyDict

\* C5: loading always succeeds: whatever the config file holds and whatever
\* file operation fails during the load, read_config_xml returns without
\* raising.
C5_ReadNeverRaises ==
    ReadEnded => last.out # "raised"

\* C6: when the config file exists and no file operation fails,
\* write_config_xml ends with the config path holding the serialization of
\* the store and with no temp file; the document is in the temp file before
\* the original is removed, and the temp file is renamed after that.
C6_WriteReplacesConfig ==
    /\ (pc = "w_remove" => (tmp = XmlFile(doc) /\ cfg = pre.cfg))
    /\ (pc = "w_rename" => (tmp = XmlFile(doc) /\ cfg = Absent))
    /\ (WriteEnded /\ ~faulted /\ Exists(pre.cfg)) =>
          (cfg = XmlFile(Serialize(cams)) /\ tmp = Absent)

WritePcs == {"w_tmp", "w_remove", "w_rename"}

\* C7: at every point of write_config_xml, a crash or a failed file
\* operation at any step included, the config path holds the whole previous
\* document, no file, or the whole new document: never part of a document.
C7_ConfigNeverPartial ==
    /\ cfg # Partial
    /\ (pc \in {"w_tmp", "w_remove"} => cfg = pre.cfg)
    /\ (pc = "w_rename" => cfg = Absent)
    /\ (last.op = "crash" /\ last.out \in WritePcs) => cfg \in {pre.cfg, Absent}
    /\ WriteEnded =>
          \/ cfg \in {pre.cfg, Absent}
          \/ ~SerializeRaises(cams) /\ cfg = XmlFile(Serialize(cams))

\* C7, the case: the process died while writing the temp file, which holds
\* part of the document; the config file is the previous document
C7_Witness ==
    /\ last.op = "crash" /\ last.out = "w_tmp"
    /\ tmp = Partial
    /\ Parses(cfg) /\ cfg = pre.cfg

\* a returned value that tests true
Truthy(ret) == ret = "True"

\* C8: write_config_xml tells its caller how it went: it never raises, and
\* it returns a false value when the temp-file write or the remove/rename
\* step failed and a true value otherwise.
C8_WriteReportsOutcome ==
    WriteEnded =>
        /\ last.out # "raised"
        /\ Truthy(last.ret) <=> last.out = "ok"

\* C9: when the file parses and the reconstruction raises part-way,
\* read_config_xml ends with an empty store: nothing that was parsed before
\* the failure, and nothing that was in memory, remains.
C9_FailedReconstructionEmptiesStore ==
    (ReadEnded /\ last.out = "parse_failed") => cams = EmptyDict

\* C9, the case: the reconstruction had filled part of the store when it
\* raised
C9_Witness ==
    /\ ReadEnded /\ last.out = "parse_failed"
    /\ ReadCams(EmptyDict, FindByType(cfg.root, S_CAM)).store # EmptyDict
    /\ cams = EmptyDict

RECURSIVE Flatten(_)
Flatten(ss) == IF ss = <<>> THEN <<>> ELSE Head(ss) \o Flatten(Tail(ss))

Named(nodes, name) == SelectSeq(nodes, LAMBDA n : AttrStr(n.attrib, "realName") = name)

\* the entity nodes the document holds under camera c, pass p, container tag
EntityNodes(root, c, p, tag) ==
    LET cs == Named(FindByType(root, S_CAM), c)
        ps == Flatten([i \in DOMAIN cs |-> Named(FindByType(cs[i], S_PASS), p)])
    IN  Flatten([i \in DOMAIN ps |-> KidsOfTagged(ps[i].kids, tag)])

\* the entity named k was built from the last node of that name: its flag
\* attribute, when the node has it, is stored as xml_get_bool of the string
Coerced(nodes, k, attr, stored) ==
    LET ns == Named(nodes, k)
    IN  (ns # <<>> /\ attr \in DOMAIN ns[Len(ns)].attrib) =>
            stored = Bool(xml_get_bool(Str(ns[Len(ns)].attrib[attr])))

\* C10: after read_config_xml, every recognised flag attribute of an entity
\* node is stored as the boolean xml_get_bool gives for its string:
\* Layer.on, Light.on, Light.enabled, Effect.active and Element.enabled.
C10_FlagsCoerced ==
    (ReadEnded /\ last.out = "parsed") =>
        \A c \in DOMAIN cams : \A p \in DOMAIN cams[c].passes :
            LET ps == cams[c].passes[p]
                nodes(tag) == EntityNodes(cfg.root, c, p, tag)
            IN  /\ \A k \in DOMAIN ps.layers :
                      Coerced(nodes(T_LAYERS), k, "on", ps.layers[k].on)
                /\ \A k \in DOMAIN ps.lights :
                      /\ Coerced(nodes(T_LIGHTS), k, "on", ps.lights[k].on)
                      /\ Coerced(nodes(T_LIGHTS), k, "enabled", ps.lights[k].enabled)
                /\ \A k \in DOMAIN ps.effects :
                      Coerced(nodes(T_EFFECTS), k, "isActive", ps.effects[k].active)
                /\ \A k \in DOMAIN ps.elements :
                      Coerced(nodes(T_ELEMENTS), k, "enabled", ps.elements[k].enabled)

\* C22: with no config file on disk read_config_xml raises nothing, leaves
\* the store empty whatever it held before, and creates no file.
C22_ReadAbsentEmptiesStore ==
    [][ReadAbsent =>
          /\ cams' = EmptyDict
          /\ last'.op = "read" /\ last'.out = "absent" /\ last'.ret = "None"
          /\ ~Exists(cfg')
          /\ UNCHANGED <<cfg, tmp, bak>>]_vars

\* C22, the case: a read found no config file and returned; the temporary
\* file of a write that did not finish is still there, the store is empty
C22_Witness ==
    /\ last = Ended("read", "absent", "None")
    /\ ~Exists(cfg) /\ Exists(tmp)
    /\ cams = EmptyDict

\* a read into an empty store has parsed the file that the write before it
\* made of the store rt.snap
ReadBackWritten ==
    /\ rt.phase = "done" /\ ~faulted
    /\ ReadEnded /\ last.out = "parsed"
    /\ cfg = XmlFile(Serialize(rt.snap))

\* C28: write_config_xml followed by read_config_xml into an empty store
\* keeps the set of camera names of the store, the cameras that have no
\* pass included.
C28_CameraNamesKept ==
    ReadBackWritten => DOMAIN cams = DOMAIN rt.snap

\* the same for the cameras that hold a pass
C28_CamerasWithPassesKept ==
    ReadBackWritten =>
        /\ DOMAIN cams \subseteq DOMAIN rt.snap
        /\ \A c \in DOMAIN rt.snap :
               rt.snap[c].passes # EmptyDict => c \in DOMAIN cams

\* C29: the store after read_config_xml is determined by the file alone:
\* whatever was in memory before, a read of a file that parses ends in the
\* store that the same read gives when it starts from an empty store.
C29_ReadDeterminedByFile ==
    [][ReadParsed => cams' = ParseConfig(EmptyDict, cfg.root)]_vars

\* the same for the reads that find no file or a file that does not parse
C29_FailedReadEmptiesStore ==
    (ReadEnded /\ last.out \in {"absent", "unreadable", "backed_up", "deleted"})
        => cams = EmptyDict

---------------------------------------------------------------------------
(* The claims about save_state and the accessors of the store, checked     *)
(* under SpecStore.  After a call of save_state, last.args holds the       *)
(* camera, the pass and the options, last.val the skip counts and the pass *)
(* as it was when the recording began, and the scene is the one the call   *)
(* recorded.                                                               *)

SaveEnded == last.op = "save_state"
SavedPass == cams[last.args[1]].passes[last.args[2]]
NamesOf(objs) == {objs[i].name : i \in DOMAIN objs}

\* C11: a save of the lights of a scene that holds a light with a quotation
\* mark or an apostrophe in its name returns, leaves that light out, counts
\* it as skipped, and records every other light whose name is valid (as an
\* entry or as an instance of an entry).
C11_QuoteLightSkipped ==
    (/\ SaveEnded /\ last.args[3]["lights"]
     /\ \E n \in NamesOf(scene.lights) : HasQuote(n))
    => /\ last.out = "ok"
       /\ \A n \in DOMAIN SavedPass.lights : ~HasQuote(n)
       /\ last.val.skipped["lights"] >= 1
       /\ \A n \in NamesOf(scene.lights) :
             (is_ascii(n) /\ ~HasQuote(n)) =>
                 \/ n \in DOMAIN SavedPass.lights
                 \/ \E k \in DOMAIN SavedPass.lights :
                       n \in Range(SavedPass.lights[k].instances)

\* the names of the scene that are ASCII, and the lights among them that
\* get_instances accepts
AsciiNames(objs) == {n \in NamesOf(objs) : is_ascii(n)}

\* C12: after a save that returned, every category whose option was set
\* holds entries of the current scene only: an entry left by an earlier
\* save whose entity is not in the scene is gone; the layers, effects and
\* elements recorded are exactly those of the scene with an ASCII name, and
\* every light of the scene with an ASCII name is an entry or an instance
\* of an entry.
C12_SaveReplacesCategory ==
    (SaveEnded /\ last.out = "ok") =>
        \A cat \in Categories :
            last.args[3][cat] =>
                /\ \A k \in DOMAIN last.val.before[cat] :
                      k \notin NamesOf(scene[cat]) => k \notin DOMAIN SavedPass[cat]
                /\ DOMAIN SavedPass[cat] \subseteq AsciiNames(scene[cat])
                /\ cat # "lights" => DOMAIN SavedPass[cat] = AsciiNames(scene[cat])
                /\ cat = "lights" =>
                      \A n \in AsciiNames(scene.lights) :
                          \/ n \in DOMAIN SavedPass.lights
                          \/ \E k \in DOMAIN SavedPass.lights :
                                n \in Range(SavedPass.lights[k].instances)

\* C12, the case: the pass held layer f, light f and effect f of an earlier
\* save; the scene no longer has them and the save dropped them
C12_Witness ==
    /\ SaveEnded /\ last.out = "ok" /\ last.args[3] = AllOptions
    /\ nF \in DOMAIN last.val.before.layers /\ nF \notin DOMAIN SavedPass.layers
    /\ nF \in DOMAIN last.val.before.lights /\ nF \notin DOMAIN SavedPass.lights
    /\ nF \in DOMAIN last.val.before.effects /\ nF \notin DOMAIN SavedPass.effects
    /\ SavedPass.layers # EmptyDict

\* the names of a sequence of objects are pairwise distinct
DistinctNames(objs) ==
    \A i, j \in DOMAIN objs : objs[i].name = objs[j].name => i = j

\* C13: a save of the layers of a scene whose layer names are pairwise
\* distinct records exactly the layers with an ASCII name and skips exactly
\* the others: the count of recorded layers plus the count of skipped ones
\* is the number of layers of the scene, whatever the names are.
C13_PartialSkipOnSave ==
    (SaveEnded /\ last.args[3]["layers"] /\ DistinctNames(scene.layers)) =>
        /\ DOMAIN SavedPass.layers = AsciiNames(scene.layers)
        /\ last.val.skipped["layers"] =
              Cardinality(NamesOf(scene.layers) \ AsciiNames(scene.layers))
        /\ Cardinality(DOMAIN SavedPass.layers) + last.val.skipped["layers"]
              = Len(scene.layers)

\* how many times x is in the sequence s
Count(s, x) == Cardinality({i \in DOMAIN s : s[i] = x})

\* C16: after set_pass(C, P), in whatever state it was called, a second
\* set_pass(C, P) returns the pass the first returned, leaves the store as
\* it is, and get_all_passes lists P once; and set_pass for any pass that
\* is in the store changes nothing, whatever the pass holds.
C16_SetPassIdempotent ==
    /\ last.op = "set_pass" =>
          LET c == last.args[1]
              p == last.args[2]
              again == set_pass(cams, c, p)
          IN  /\ again = cams
              /\ again[c].passes[p] = last.val
              /\ Count(get_all_passes(again), p) = 1
    /\ \A c \in DOMAIN cams : \A p \in DOMAIN cams[c].passes :
          set_pass(cams, c, p) = cams

\* C16, the case: set_pass was called for a pass that held a recorded
\* scene and whose name is also a pass of the other camera
C16_Witness ==
    /\ last.op = "set_pass" /\ last.args = <<nB, nP>>
    /\ last.val.layers # EmptyDict
    /\ nA \in DOMAIN cams /\ nP \in DOMAIN cams[nA].passes
    /\ get_all_passes(cams) = <<nP>>

\* the pass is in the store
HasPass(store, c, p) == c \in DOMAIN store /\ p \in DOMAIN store[c].passes

\* C17: get_pass(cam, pass) raises ValueError when the camera is not in the
\* store or the pass is not under it, returns the stored pass otherwise,
\* and leaves the store as it is in both cases.
C17_GetPassFindsOrRaises ==
    [][\A c \in StoreCams, p \in StorePasses :
          GetPass(c, p) =>
              /\ cams' = cams
              /\ IF HasPass(cams, c, p)
                 THEN last'.out = "ok" /\ last'.val = cams[c].passes[p]
                 ELSE last'.out = "raised" /\ last'.ret = "ValueError"]_vars

\* C17, the case: the camera is there with another pass, the pass asked
\* for is not; get_pass raised and created nothing
C17_Witness ==
    /\ last.op = "get_pass" /\ last.args = <<nA, nQ>>
    /\ last.out = "raised" /\ last.ret = "ValueError"
    /\ nA \in DOMAIN cams /\ DOMAIN cams[nA].passes = {nP}
    /\ nB \notin DOMAIN cams

\* the step is a call of set_pass or save_state for the pass
Recreates(l, c, p) ==
    /\ l.op \in {"set_pass", "save_state"}
    /\ l.args[1] = c /\ l.args[2] = p

\* C18: where pass P exists under camera C, get_pass(C, P) fails with
\* ValueError after reset_pass(C, P), and a pass that is not in the store
\* comes into it only by a set_pass or a save_state for (C, P).
C18_DeleteThenGet ==
    [][\A c \in StoreCams, p \in StorePasses :
          /\ ResetPass(c, p) /\ HasPass(cams, c, p) =>
                 get_pass(cams', c, p) = Raised("ValueError")
          /\ ~HasPass(cams, c, p) /\ HasPass(cams', c, p) =>
                 Recreates(last', c, p)]_vars

\* C18, the case: reset_pass deleted a recorded pass of a camera that keeps
\* another pass, and get_pass for the deleted one fails
C18_Witness ==
    /\ last.op = "reset_pass" /\ last.out = "ok" /\ last.args = <<nA, nP>>
    /\ nA \in DOMAIN cams /\ DOMAIN cams[nA].passes = {nQ}
    /\ HasPass(cams, nB, nP) /\ cams[nB].passes[nP].layers # EmptyDict
    /\ get_pass(cams, nA, nP) = Raised("ValueError")

\* the call that ended raised ValueError
RaisedNotFound(l) == l.out = "raised" /\ l.ret = "ValueError"

\* C19: reset_pass for a camera or a pass that is not in the store, and
\* reset_cam for a camera that is not in the store, raise ValueError and
\* leave the store as it was.
C19_ResetAbsentRaises ==
    [][/\ \A c \in StoreCams, p \in StorePasses :
              ResetPass(c, p) /\ ~HasPass(cams, c, p) =>
                  RaisedNotFound(last') /\ cams' = cams
       /\ \A c \in StoreCams :
              ResetCam(c) /\ c \notin DOMAIN cams =>
                  RaisedNotFound(last') /\ cams' = cams]_vars

\* C19, the case: reset_pass raised for a pass that is not under a camera
\* that holds a recorded pass, and reset_cam would raise for the other camera
C19_Witness ==
    /\ last.op = "reset_pass" /\ last.args = <<nA, nQ>> /\ RaisedNotFound(last)
    /\ nA \in DOMAIN cams /\ DOMAIN cams[nA].passes = {nP}
    /\ cams[nA].passes[nP].layers # EmptyDict
    /\ nB \notin DOMAIN cams /\ reset_cam(cams, nB) = Raised("ValueError")

\* C20: reset_cam(C) for a camera in the store takes C out with all its
\* passes, so that get_pass(C, p) raises ValueError for every p, and leaves
\* every other camera with its passes as it was.
C20_ResetCamRemovesOnlyCam ==
    [][\A c \in StoreCams :
          ResetCam(c) /\ c \in DOMAIN cams =>
              /\ last'.out = "ok"
              /\ c \notin DOMAIN cams'
              /\ \A p \in StorePasses :
                     get_pass(cams', c, p) = Raised("ValueError")
              /\ DOMAIN cams' = DOMAIN cams \ {c}
              /\ \A k \in DOMAIN cams' : cams'[k] = cams[k]]_vars

\* C20, the case: reset_cam took out a camera, and the other camera still
\* holds its two passes, one of them recorded
C20_Witness ==
    /\ last.op = "reset_cam" /\ last.out = "ok" /\ last.args = <<nA>>
    /\ DOMAIN cams = {nB}
    /\ DOMAIN cams[nB].passes = {nP, nQ}
    /\ cams[nB].passes[nP].layers # EmptyDict

\* the names of the passes that are under some camera of the store
PassNamesIn(store) ==
    UNION {{store[c].passes[p].name : p \in DOMAIN store[c].passes} :
           c \in DOMAIN store}

\* C21: get_all_passes returns every pass name that is under at least one
\* camera, each exactly once even when several cameras hold a pass of that
\* name, and no name that is under no camera.
C21_AllPassesOnce ==
    /\ Range(get_all_passes(cams)) = PassNamesIn(cams)
    /\ Len(get_all_passes(cams)) = Cardinality(PassNamesIn(cams))
    /\ last.op = "get_all_passes" =>
           /\ Range(last.val.list) = PassNamesIn(cams)
           /\ \A n \in PassNamesIn(cams) : Count(last.val.list, n) = 1

\* C21, the case: two cameras hold a pass of the same name, one of them
\* holds another pass as well, and get_all_passes returned two names
C21_Witness ==
    /\ last.op = "get_all_passes" /\ Len(last.val.list) = 2
    /\ HasPass(cams, nA, nP) /\ HasPass(cams, nB, nP) /\ HasPass(cams, nB, nQ)
    /\ ~HasPass(cams, nA, nQ)

\* the names of the objects, in their order
ObjNames(objs) == [i \in DOMAIN objs |-> objs[i].name]

\* the recorded entity is in the scene and carries the recorded flag, or is
\* not in the scene; a flag recorded as None is not restored
Restored(objs, r, flag) ==
    LET i == FirstNamed(objs, r.name)
    IN  i # 0 /\ r[flag] # PyNone => objs[i][flag] = r[flag]

\* C23: load_state skips every recorded layer and light that the scene does
\* not hold, gives every recorded layer and light that the scene does hold
\* its recorded flags, creates no object, and returns without raising.
C23_LoadSkipsMissing ==
    [][\A c \in StoreCams, p \in SavePasses, o \in OptionSets :
          LoadState(c, p, o) /\ HasPass(cams, c, p) =>
              LET ps == cams[c].passes[p]
              IN  /\ last'.out = "ok"
                  /\ ObjNames(scene'.layers) = ObjNames(scene.layers)
                  /\ ObjNames(scene'.lights) = ObjNames(scene.lights)
                  /\ o["layers"] =>
                         \A k \in DOMAIN ps.layers :
                             Restored(scene'.layers, ps.layers[k], "on")
                  /\ o["lights"] =>
                         \A k \in DOMAIN ps.lights :
                             /\ Restored(scene'.lights, ps.lights[k], "on")
                             /\ Restored(scene'.lights, ps.lights[k], "enabled")]_vars

\* C23, the case: layers 'f' and 'g' and lights 'f' and 'h' are recorded,
\* the scene holds only layer 'g' and light 'h', and load_state has given
\* both their recorded flags, which differ from those the scene had
C23_Witness ==
    /\ last.op = "load_state" /\ last.out = "ok"
    /\ last.args = <<nA, nP, AllOptions>>
    /\ HasPass(cams, nA, nP)
    /\ {nF, nG} \subseteq DOMAIN cams[nA].passes[nP].layers
    /\ {nF, nH} \subseteq DOMAIN cams[nA].passes[nP].lights
    /\ scene.layers = <<SceneLayer(nG, PyFalse)>>
    /\ scene.lights = <<SceneLight(nH, PyNone, PyFalse, 1)>>
    /\ scene # SceneLess

\* C24: load_state for a camera and pass that are not in the store changes
\* nothing in the scene and creates neither; for a pass whose layers or
\* lights mapping is empty it changes no layer, or no light, of the scene;
\* it never touches an atmospheric or a render element; it does not raise.
C24_LoadNothingToRestore ==
    [][\A c \in StoreCams, p \in SavePasses, o \in OptionSets :
          LoadState(c, p, o) =>
              /\ cams' = cams
              /\ scene'.effects = scene.effects
              /\ scene'.elements = scene.elements
              /\ IF ~HasPass(cams, c, p)
                 THEN scene' = scene /\ last'.out = "ok"
                 ELSE /\ cams[c].passes[p].layers = EmptyDict =>
                             scene'.layers = scene.layers
                      /\ cams[c].passes[p].lights = EmptyDict =>
                             scene'.lights = scene.lights
                      /\ cams[c].passes[p].layers = EmptyDict
                           /\ cams[c].passes[p].lights = EmptyDict =>
                             last'.out = "ok"]_vars

\* C24, the case: load_state was called for a camera that is not in the
\* store, while another camera holds a recorded pass of that name and the
\* scene holds layers and lights; the camera is still not in the store
C24_Witness ==
    /\ last.op = "load_state" /\ last.out = "ok"
    /\ last.args = <<nB, nP, AllOptions>>
    /\ nB \notin DOMAIN cams
    /\ HasPass(cams, nA, nP) /\ cams[nA].passes[nP].layers # EmptyDict
    /\ scene = SceneMain

\* C30: save_state(cam, pass, options) leaves every category mapping of the
\* target pass whose option is false as it was (empty when the pass is
\* new), and leaves every other pass and every other camera of the store
\* unchanged: the target pass is not cleared before the recording.
C30_SaveLeavesUnselected ==
    [][\A c \in StoreCams, p \in SavePasses, o \in OptionSets :
          last'.op = "save_state" /\ SaveState(c, p, o) =>
              /\ HasPass(cams', c, p)
              /\ \A cat \in Categories :
                     ~o[cat] =>
                         cams'[c].passes[p][cat] =
                             set_pass(cams, c, p)[c].passes[p][cat]
              /\ DOMAIN cams' = DOMAIN cams \cup {c}
              /\ \A c2 \in DOMAIN cams :
                     /\ DOMAIN cams[c2].passes \subseteq DOMAIN cams'[c2].passes
                     /\ DOMAIN cams'[c2].passes \subseteq
                            DOMAIN cams[c2].passes \cup {p}
                     /\ \A p2 \in DOMAIN cams[c2].passes :
                            <<c2, p2>> # <<c, p>> =>
                                cams'[c2].passes[p2] = cams[c2].passes[p2]]_vars

\* C30, the case: the pass was recorded with every option in one scene and
\* then with the layers only in another: the layers are those of the second
\* scene, the lights, effects and elements still those of the first, and
\* the pass of the other camera is as set_pass made it
C30_Witness ==
    /\ last.op = "save_state" /\ last.out = "ok"
    /\ last.args = <<nA, nP, Options(TRUE, FALSE, FALSE, FALSE)>>
    /\ scene = SceneLess
    /\ DOMAIN cams[nA].passes[nP].layers = {nG}
    /\ DOMAIN cams[nA].passes[nP].lights = {nF, nH}
    /\ cams[nA].passes[nP].lights = last.val.before.lights
    /\ cams[nA].passes[nP].effects # EmptyDict
    /\ cams[nA].passes[nP].elements # EmptyDict
    /\ HasPass(cams, nB, nQ) /\ cams[nB].passes[nQ] = RadishPass(nQ)

---------------------------------------------------------------------------
(* The claims about the store, the scene and the files, checked under      *)
(* SpecSaved.                                                              *)

\* every light recorded in the store
StoredLights ==
    UNION {UNION {{cams[c].passes[p].lights[k] : k \in DOMAIN cams[c].passes[p].lights}
                  : p \in DOMAIN cams[c].passes}
           : c \in DOMAIN cams}

\* C14: whatever was recorded, reset, written and read back, no light of
\* the store has its own name in its list of instances.
C14_NoSelfInstance == \A l \in StoredLights : l.name \notin Range(l.instances)

\* C14, the case: light f, recorded with its instance g while the scene
\* listed f among its own instances, was written and read into an empty
\* store
C14_Witness ==
    /\ rt.phase = "done" /\ ReadEnded /\ last.out = "parsed"
    /\ nA \in DOMAIN cams /\ nP \in DOMAIN cams[nA].passes
    /\ nF \in DOMAIN cams[nA].passes[nP].lights
    /\ cams[nA].passes[nP].lights[nF].instances = <<nG>>

\* a step is a call of one of the nine operations on the store, with the
\* arguments SpecSaved calls them with
StoreCall ==
    \/ SetCam(nA)
    \/ SetPass(nA, nP)
    \/ GetPass(nA, nP)
    \/ GetAllPasses
    \/ SaveState(nA, nP, AllOptions)
    \/ LoadState(nA, nP, AllOptions)
    \/ ResetPass(nA, nP)
    \/ ResetCam(nA)
    \/ ResetAll

\* C15: set_cam, set_pass, get_pass, get_all_passes, save_state,
\* load_state, reset_pass, reset_cam and reset_all leave the config file,
\* the temp file and the backup file as they are.
C15_StoreCallsLeaveFiles ==
    [][StoreCall => (cfg' = cfg /\ tmp' = tmp /\ bak' = bak)]_vars

\* C15, the case: the scene was recorded into the store and the config
\* file still is the one of the empty store
C15_Witness ==
    /\ SaveEnded /\ last.out = "ok"
    /\ SavedPass.layers # EmptyDict /\ SavedPass.lights # EmptyDict
    /\ cfg = XmlFile(RootEl(<<>>)) /\ tmp = Absent /\ bak = Absent


---------------------------------------------------------------------------
(* The claims about the dialog, checked under SpecUi. *)

\* the settings of the dialog are refused
InvalidName(c, p) == ~is_ascii(c) \/ ~is_ascii(p)

\* C25: with a camera name or a pass name that is not ASCII, rd_save and
\* rd_load return without raising and leave the store, the scene and the
\* files as they were: no pass is created and nothing is written.
C25_InvalidNameBlocks ==
    [][\A c \in UiCams, p \in UiPasses, o \in UiOptions :
          InvalidName(c, p) /\ (RdSave(c, p, o) \/ RdLoad(c, p, o)) =>
              /\ UNCHANGED <<cams, scene, cfg, tmp, bak>>
              /\ last'.out = "ok"
              /\ ~last'.val.settings]_vars

\* C25, the case: rd_save was called with a camera name that is not ASCII
\* after a save under a plain name had been written; the store holds the
\* plain camera only and the file holds what that save wrote
C25_Witness ==
    /\ last.op = "rd_save" /\ last.args[1] = nAccent /\ last.args[2] = nP
    /\ ~last.val.settings
    /\ DOMAIN cams = {nA} /\ HasPass(cams, nA, nP)
    /\ Parses(cfg) /\ cfg = XmlFile(Serialize(cams))
    /\ scene = SceneMain


\* rd_save got its settings, and neither save_state nor write raised
SavedAndWritten ==
    last.op = "rd_save" /\ last.val.settings /\ last.val.caught = ""

\* C27: the first save creates the file: after save_state and
\* write_config_xml have run with no failure, the config file exists, also
\* when there was none before, and a read of it into an empty store gives
\* the saved camera and pass.
C27_FirstSaveCreatesFile ==
    SavedAndWritten =>
        /\ Parses(cfg)
        /\ \E s \in {rd_get_settings(last.args[1], last.args[2]).val} :
               HasPass(ParseConfig(EmptyDict, cfg.root), s.cam, s.pass)

\* the same when the config file was there before the save
C27_LaterSaveReplacesFile ==
    (SavedAndWritten /\ Exists(cfg)) =>
        /\ Parses(cfg)
        /\ \E s \in {rd_get_settings(last.args[1], last.args[2]).val} :
               HasPass(ParseConfig(EmptyDict, cfg.root), s.cam, s.pass)

---------------------------------------------------------------------------
(* The claim about xml_get_bool, checked under SpecBool. *)

S_TRUE == <<"T", "R", "U", "E">>

\* C26: xml_get_bool is total: for every input it raises nothing and
\* returns true exactly when the string form of the input, in upper case,
\* is 'TRUE' or '1'; every other input, None included, gives false.
C26_GetBoolTotal ==
    tagOut # <<>> =>
        /\ tagOut[1].ok
        /\ tagOut[1].val = Bool(Upper(PyStrOf(tagIn)) \in {S_TRUE, <<"1">>})

\* the same for the inputs str() can convert: None, the booleans and the
\* strings that hold no character outside ASCII
C26_GetBoolOnAscii ==
    (tagOut # <<>> /\ ~StrRaises(tagIn)) =>
        /\ tagOut[1].ok
        /\ tagOut[1].val = Bool(Upper(PyStrOf(tagIn)) \in {S_TRUE, <<"1">>})

===========================================================================
